---- MODULE Spec2Model ----
(***************************************************************************)
(* Model of the generic file-backed session cache (SessionManager) of      *)
(* src/src/utils/sessionManager.ts: one namespace directory, one JSON file *)
(* per session key, TTL expiry and FIFO/LRU eviction by file times.        *)
(*                                                                         *)
(* Every handler is synchronous (fs.*Sync), so one handler is one action.  *)
(* The clock `now` stands for both Date.now() and the file-system clock;   *)
(* it advances only by Tick, so a handler reads one clock value and        *)
(* several handlers may run in one tick (file times then tie).             *)
(*                                                                         *)
(* Spec and SpecLongTtl are the store used by one process on a file system *)
(* that does not fail.  The other specifications take one aspect each:     *)
(* SpecFaults (failing writes and removals), SpecConcurrent (two processes *)
(* on one directory, a save taken call by call), SpecCollide (ids with one *)
(* key), SpecAnyPayload (any SessionData), SpecSanitize (the key           *)
(* function), SpecConstruct (the constructor's configuration), SpecSweep   *)
(* (saves over a directory left over capacity), SpecStats (getStats),      *)
(* SpecAskGemini                                                           *)
(* (the ask-gemini tool's use of its session manager) and SpecReview (the  *)
(* ReviewSessionManager beside the deprecated reviewSessionCache of        *)
(* src/unnamed/part_003), SpecLoadFaults (failing reads and refresh        *)
(* writes), SpecEvictFaults (eviction victims that cannot be removed),     *)
(* SpecGetOrCreate (getOrCreate of the tools' managers), SpecBrainstorm    *)
(* (a brainstorm session's idea counters) and SpecReviewComments (the      *)
(* review-code tool's comment decisions).                                  *)
(***************************************************************************)
EXTENDS Naturals, Integers, Sequences, FiniteSets, TLC

VARIABLES
  now,        \* the clock (Date.now() and file times), in ticks
  config,     \* this.config: ttl, maxSessions, evictionPolicy
  files,      \* the namespace directory: file key -> [bytes, birthtimeMs, mtimeMs]
  lastOp,     \* history: the last step taken; for a handler, with the value it returned
  lastSaved,  \* history: per key, the last save since the entry was last removed or corrupted
  procs,      \* per invocation running beside others on the namespace: its position and locals
  reviewCache \* the directory of the deprecated reviewSessionCache (REVIEW_CACHE_DIR)

vars == <<now, config, files, lastOp, lastSaved, procs, reviewCache>>

----------------------------------------------------------------------------
(* Bounds *)

MaxTime == 2
MaxLen == 3
\* rounds of a brainstorm session, ideas of a round, refinement calls
MaxRounds == 2
MaxIdeas == 2
MaxRefinements == 2
\* comments a review round adds, decisions passed to a round
MaxComments == 2
MaxDecisions == 2

(* Inputs *)

SessionIds == {<<"a">>, <<"b">>, <<"c", "/">>}
SafeChars == {"a", "b", "c", "0", "-", "_"}
Policies == {"fifo", "lru"}
Capacities == {1, 2}
Ttls == {1}
LongTtls == {2}

\* ids used where file-system calls may fail
FaultIds == {<<"a">>, <<"b">>}

\* ids used where the caller's payload is arbitrary
PayloadIds == {<<"a">>, <<"b">>}

\* ids used where the statistics are read
StatsIds == {<<"a">>, <<"b">>}

\* session ids passed to the ask-gemini tool
AskIds == {<<"a">>, <<"b">>}

\* review session ids: file-system safe, each its own file key
ReviewIds == {<<"a">>, <<"b">>, <<"c", "-">>}
\* the session limit of the review sessions, fewer than there are ids
ReviewCapacities == {2}

\* ids used by invocations that run side by side
ConcurrentIds == {<<"a">>, <<"b">>}

\* ids of which two differ and have the same key
CollidingIds == {<<"c", "/">>, <<"c", ".">>, <<"b">>}

\* raw session ids a caller may pass: every string of up to MaxLen of these
\* characters, the empty one included
RawChars == {"a", "-", "_", "/", "."}
RawIds == UNION {[1..n -> RawChars] : n \in 0..MaxLen}

----------------------------------------------------------------------------
(* JavaScript values: tagged, so that any two of them can be compared.     *)

Undefined == [t |-> "undefined"]
\* a thrown Error, as the caller of a handler sees it
Threw == [t |-> "error"]
Null == [t |-> "null"]
Void == [t |-> "void"]
Num(n) == [t |-> "number", v |-> n]
Str(s) == [t |-> "string", v |-> s]
Bool(b) == [t |-> "boolean", v |-> b]
Obj(fields) == [t |-> "object", v |-> fields]
Arr(seq) == [t |-> "array", v |-> seq]
\* the Promise an async function returns, with the value it settles to
Promise(x) == [t |-> "promise", settled |-> x]

PayloadValues == {Str("p"), Undefined}

\* property access o.f on an object
Get(o, f) == IF f \in DOMAIN o.v THEN o.v[f] ELSE Undefined

\* property access x.f on any value that is not null or undefined: only an
\* object of the model has properties; a Promise has none of a session's
Prop(x, f) == IF x.t = "object" THEN Get(x, f) ELSE Undefined

\* { ...o, f: x }
With(o, f, x) == Obj([g \in DOMAIN o.v \cup {f} |-> IF g = f THEN x ELSE o.v[g]])

\* JSON.stringify of an object: a property whose value is undefined is
\* omitted; nested objects likewise.  The text of a file is either such a
\* document or bytes that are not JSON.
StringifyValue(x) ==
  IF x.t = "object"
    THEN Obj([g \in {h \in DOMAIN x.v : x.v[h] # Undefined} |-> x.v[g]])
    ELSE x

JSONstringify(o) ==
  [t |-> "json",
   v |-> Obj([g \in {h \in DOMAIN o.v : o.v[h] # Undefined} |-> StringifyValue(o.v[g])])]

CorruptBytes == [t |-> "garbage"]

\* JSON.parse throws a SyntaxError on bytes that are not JSON
ParseThrows(bytes) == bytes.t # "json"
JSONparse(bytes) == bytes.v

----------------------------------------------------------------------------
(* Configuration.  Times here are in milliseconds, as in the source; the   *)
(* store's own specifications below count in ticks.                        *)

ToolNames == {"review-code", "ask-gemini", "brainstorm", "my-tool"}

\* Partial<SessionConfig> overrides a caller may pass, or no argument
CustomConfigs ==
  {Undefined} \cup
  {Obj([ttl |-> t, maxSessions |-> m, evictionPolicy |-> e]) :
     t \in {Undefined, Num(0), Num(5000)},
     m \in {Undefined, Num(0), Num(7)},
     e \in {Undefined, Str("fifo"), Str("lru")}}

DEFAULT_CONFIGS ==
  [toolName \in {"review-code", "ask-gemini", "brainstorm"} |->
     IF toolName = "review-code"
       THEN Obj([ttl |-> Num(24 * 60 * 60 * 1000), maxSessions |-> Num(20),
                 evictionPolicy |-> Str("fifo")])
     ELSE IF toolName = "ask-gemini"
       THEN Obj([ttl |-> Num(7 * 24 * 60 * 60 * 1000), maxSessions |-> Num(50),
                 evictionPolicy |-> Str("lru")])
     ELSE Obj([ttl |-> Num(14 * 24 * 60 * 60 * 1000), maxSessions |-> Num(30),
               evictionPolicy |-> Str("lru")])]

\* the shared constants table, which repeats DEFAULT_CONFIGS
SESSION ==
  [DEFAULT_TTL |-> 24 * 60 * 60 * 1000,
   DEFAULT_MAX_SESSIONS |-> 20,
   DEFAULT_EVICTION_POLICY |-> "lru",
   TOOL_CONFIGS |->
     [toolName \in {"review-code", "ask-gemini", "brainstorm"} |->
        IF toolName = "review-code"
          THEN [TTL |-> 24 * 60 * 60 * 1000, MAX_SESSIONS |-> 20, EVICTION_POLICY |-> "fifo"]
        ELSE IF toolName = "ask-gemini"
          THEN [TTL |-> 7 * 24 * 60 * 60 * 1000, MAX_SESSIONS |-> 50, EVICTION_POLICY |-> "lru"]
        ELSE [TTL |-> 14 * 24 * 60 * 60 * 1000, MAX_SESSIONS |-> 30, EVICTION_POLICY |-> "lru"]]]

\* x ?? y
Nullish(x, y) == IF x = Undefined \/ x = Null THEN y ELSE x

\* x || y on numbers and strings
Falsy(x, y) == IF x = Undefined \/ x = Null \/ x = Num(0) \/ x = Str("") THEN y ELSE x

\* o?.f
OptGet(o, f) == IF o = Undefined \/ o = Null THEN Undefined ELSE Get(o, f)

constructorWithOr(toolName, customConfig) ==
  LET defaultConfig == IF toolName \in DOMAIN DEFAULT_CONFIGS
                         THEN DEFAULT_CONFIGS[toolName] ELSE Obj(<<>>)
  IN [ttl |-> Falsy(Falsy(OptGet(customConfig, "ttl"), Get(defaultConfig, "ttl")),
                    Num(24 * 60 * 60 * 1000)).v,
      maxSessions |-> Falsy(Falsy(OptGet(customConfig, "maxSessions"),
                                  Get(defaultConfig, "maxSessions")), Num(20)).v,
      evictionPolicy |-> Falsy(Falsy(OptGet(customConfig, "evictionPolicy"),
                                     Get(defaultConfig, "evictionPolicy")), Str("lru")).v]

\* this.config as the constructor resolves it (toolName itself left out)
constructor(toolName, customConfig) ==
  LET defaultConfig == IF toolName \in DOMAIN DEFAULT_CONFIGS
                         THEN DEFAULT_CONFIGS[toolName] ELSE Obj(<<>>)
  IN [ttl |-> Nullish(Nullish(OptGet(customConfig, "ttl"), Get(defaultConfig, "ttl")),
                      Num(24 * 60 * 60 * 1000)).v,
      maxSessions |-> Nullish(Nullish(OptGet(customConfig, "maxSessions"),
                                      Get(defaultConfig, "maxSessions")), Num(20)).v,
      evictionPolicy |-> Nullish(Nullish(OptGet(customConfig, "evictionPolicy"),
                                         Get(defaultConfig, "evictionPolicy")), Str("lru")).v]

----------------------------------------------------------------------------
(* Key sanitisation *)

getSessionFilePathRaw(sessionId) == sessionId

getSessionFilePathShifting(sessionId) ==
  [i \in 1..Len(sessionId) |->
     IF sessionId[i] = "-" THEN "_"
     ELSE IF sessionId[i] \in SafeChars THEN sessionId[i] ELSE "-"]

\* sessionId.replace(/[^a-zA-Z0-9-_]/g, '-'); the directory and the ".json"
\* suffix are the same for every key and are left out
getSessionFilePath(sessionId) ==
  [i \in 1..Len(sessionId) |->
     IF sessionId[i] \in SafeChars THEN sessionId[i] ELSE "-"]

Keys == {getSessionFilePath(id) : id \in SessionIds \cup CollidingIds}

----------------------------------------------------------------------------
(* File system primitives *)

\* the namespace directory when it does not exist (`files` is otherwise the
\* function from the names in the directory to the files)
NoDirectory == [t |-> "no directory"]

\* ensureCacheDir: mkdirSync (recursive) unless the directory exists
ensureCacheDir(fs) == IF fs = NoDirectory THEN <<>> ELSE fs

existsSync(fs, k) == k \in DOMAIN fs

unlinkSync(fs, k) == [j \in DOMAIN fs \ {k} |-> fs[j]]

\* writeFileSync creates the file (birth time = now) or truncates and
\* rewrites it (birth time kept); the modification time is now either way.
writeFileSync(fs, k, bytes, t) ==
  [j \in DOMAIN fs \cup {k} |->
     IF j = k
       THEN [bytes |-> bytes,
             birthtimeMs |-> IF k \in DOMAIN fs THEN fs[k].birthtimeMs ELSE t,
             mtimeMs |-> t]
       ELSE fs[j]]

\* what a writeFileSync that throws leaves behind: nothing changed (the
\* open failed), or the file created or truncated with the data not
\* written (the write failed)
writeFileSyncThrows(fs, k, t) == {fs, writeFileSync(fs, k, CorruptBytes, t)}

\* readdirSync returns the names in an order the file system chooses
readdirSync(fs) ==
  {s \in [1..Cardinality(DOMAIN fs) -> DOMAIN fs] :
     \A i, j \in 1..Cardinality(DOMAIN fs) : i # j => s[i] # s[j]}

----------------------------------------------------------------------------
(* Expiry *)

isExpiredAtBoundary(entry, t) ==
  LET e == Get(entry, "expiryTime") IN e.t = "number" /\ t >= e.v

isExpiredLate(entry, t) ==
  LET e == Get(entry, "expiryTime") IN e.t = "number" /\ t > e.v + 1

\* Date.now() > cacheEntry.expiryTime (false when the property is missing)
isExpired(entry, t) ==
  LET e == Get(entry, "expiryTime") IN e.t = "number" /\ t > e.v

isLiveStrict(entry, t) ==
  LET e == Get(entry, "expiryTime") IN e.t = "number" /\ t < e.v

\* now <= cacheEntry.expiryTime
isLive(entry, t) ==
  LET e == Get(entry, "expiryTime") IN e.t = "number" /\ t <= e.v

cleanNothing(fs, t) == fs

sweepReadRemovesCorrupt(fs, k, t) ==
  IF ~existsSync(fs, k) THEN "skip"
  ELSE IF ParseThrows(fs[k].bytes) THEN "unlink"
  ELSE IF isExpired(JSONparse(fs[k].bytes), t) THEN "unlink"
  ELSE "skip"

\* one turn of the loop of cleanExpiredSessions, up to its unlinkSync: the
\* file is read and decoded, and is to be unlinked when it is expired; a
\* file that is gone or does not decode throws into the catch and is skipped
sweepRead(fs, k, t) ==
  IF ~existsSync(fs, k) THEN "skip"
  ELSE IF ParseThrows(fs[k].bytes) THEN "skip"
  ELSE IF isExpired(JSONparse(fs[k].bytes), t) THEN "unlink"
  ELSE "skip"

cleanExpiredSessions(fs, t) ==
  LET doomed == {k \in DOMAIN fs :
                   /\ ~ParseThrows(fs[k].bytes)
                   /\ isExpired(JSONparse(fs[k].bytes), t)}
  IN [j \in DOMAIN fs \ doomed |-> fs[j]]

----------------------------------------------------------------------------
(* Eviction *)

\* Array.prototype.sort with comparator (a, b) => val(a) - val(b): stable
StableSort(seq, val) ==
  LET n == Len(seq)
      rank(i) == Cardinality({j \in 1..n :
                    \/ val[seq[j]] < val[seq[i]]
                    \/ (val[seq[j]] = val[seq[i]] /\ j < i)})
  IN [p \in 1..n |-> seq[CHOOSE i \in 1..n : rank(i) = p - 1]]

SortKeyNewestFirst(fs, cfg, k) ==
  IF cfg.evictionPolicy = "fifo" THEN 0 - fs[k].birthtimeMs ELSE 0 - fs[k].mtimeMs

\* the comparator's operand: a.stat.birthtimeMs (fifo) or a.stat.mtimeMs (lru)
SortKey(fs, cfg, k) ==
  IF cfg.evictionPolicy = "fifo" THEN fs[k].birthtimeMs ELSE fs[k].mtimeMs

toRemoveOneLess(fs, cfg, listing) ==
  IF Len(listing) <= cfg.maxSessions + 1
    THEN {}
    ELSE LET key == [k \in DOMAIN fs |-> SortKey(fs, cfg, k)]
             sorted == StableSort(listing, key)
         IN {sorted[i] : i \in 1..(Len(listing) - cfg.maxSessions - 1)}

\* the names enforceSessionLimits unlinks, given the directory listing
toRemove(fs, cfg, listing) ==
  IF Len(listing) <= cfg.maxSessions
    THEN {}
    ELSE LET key == [k \in DOMAIN fs |-> SortKey(fs, cfg, k)]
             sorted == StableSort(listing, key)
         IN {sorted[i] : i \in 1..(Len(listing) - cfg.maxSessions)}

\* the directories enforceSessionLimits may leave: one per listing order
enforceSessionLimits(fs, cfg) ==
  {[j \in DOMAIN fs \ toRemove(fs, cfg, listing) |-> fs[j]] :
     listing \in readdirSync(fs)}

enforceSessionLimitsAborts(fs, cfg, stuck) ==
  {fs : listing \in {l \in readdirSync(fs) : stuck \in toRemove(fs, cfg, l)}}

\* enforceSessionLimits when the unlinkSync of the victim stuck throws: the
\* empty catch inside the loop swallows it and the loop goes on
enforceSessionLimitsThrows(fs, cfg, stuck) ==
  {[j \in DOMAIN fs \ (toRemove(fs, cfg, listing) \ {stuck}) |-> fs[j]] :
     listing \in {l \in readdirSync(fs) : stuck \in toRemove(fs, cfg, l)}}

----------------------------------------------------------------------------
(* The handlers, as functions of the directory, the configuration and the  *)
(* clock.  Each yields the new directory and the value returned.           *)

saveKeepsSessionId(fs, cfg, t, sessionId, data) ==
  LET swept == cleanExpiredSessions(fs, t)
      filePath == getSessionFilePath(sessionId)
      cacheEntry == Obj([data |-> With(data, "lastAccessedAt", Num(t)),
                         timestamp |-> Num(t),
                         expiryTime |-> Num(t + cfg.ttl)])
  IN writeFileSync(swept, filePath, JSONstringify(cacheEntry), t)

\* save up to the write; enforceSessionLimits follows
save(fs, cfg, t, sessionId, data) ==
  LET swept == cleanExpiredSessions(fs, t)
      filePath == getSessionFilePath(sessionId)
      cacheEntry == Obj([data |-> With(With(data, "sessionId", Str(sessionId)),
                                       "lastAccessedAt", Num(t)),
                         timestamp |-> Num(t),
                         expiryTime |-> Num(t + cfg.ttl)])
  IN writeFileSync(swept, filePath, JSONstringify(cacheEntry), t)

saveThrowsThenEvicts(fs, cfg, t, sessionId) ==
  LET swept == cleanExpiredSessions(fs, t)
      filePath == getSessionFilePath(sessionId)
  IN {[fs |-> limited, ret |-> Threw] :
        limited \in UNION {enforceSessionLimits(left, cfg) :
                             left \in writeFileSyncThrows(swept, filePath, t)}}

\* save when its writeFileSync throws: the catch logs and throws a new
\* Error, so enforceSessionLimits is not reached
saveThrows(fs, cfg, t, sessionId) ==
  LET swept == cleanExpiredSessions(fs, t)
      filePath == getSessionFilePath(sessionId)
  IN {[fs |-> left, ret |-> Threw] : left \in writeFileSyncThrows(swept, filePath, t)}

loadExtendsExpiry(fs, cfg, t, sessionId) ==
  LET filePath == getSessionFilePath(sessionId) IN
  IF ~existsSync(fs, filePath) THEN [fs |-> fs, ret |-> Null]
  ELSE IF ParseThrows(fs[filePath].bytes)
    THEN [fs |-> unlinkSync(fs, filePath), ret |-> Null]
  ELSE LET cacheEntry == JSONparse(fs[filePath].bytes) IN
    IF isExpired(cacheEntry, t)
      THEN [fs |-> unlinkSync(fs, filePath), ret |-> Null]
    ELSE IF cfg.evictionPolicy = "lru"
      THEN LET touched == With(With(With(cacheEntry, "data",
                                  With(Get(cacheEntry, "data"), "lastAccessedAt", Num(t))),
                               "timestamp", Num(t)),
                               "expiryTime", Num(t + cfg.ttl))
           IN [fs |-> writeFileSync(fs, filePath, JSONstringify(touched), t),
               ret |-> Get(touched, "data")]
      ELSE [fs |-> fs, ret |-> Get(cacheEntry, "data")]

loadKeepsCorrupt(fs, cfg, t, sessionId) ==
  LET filePath == getSessionFilePath(sessionId) IN
  IF ~existsSync(fs, filePath) THEN [fs |-> fs, ret |-> Null]
  ELSE IF ParseThrows(fs[filePath].bytes)
    THEN [fs |-> fs, ret |-> Null]
  ELSE LET cacheEntry == JSONparse(fs[filePath].bytes) IN
    IF isExpired(cacheEntry, t)
      THEN [fs |-> unlinkSync(fs, filePath), ret |-> Null]
    ELSE IF cfg.evictionPolicy = "lru"
      THEN LET touched == With(With(cacheEntry, "data",
                                  With(Get(cacheEntry, "data"), "lastAccessedAt", Num(t))),
                               "timestamp", Num(t))
           IN [fs |-> writeFileSync(fs, filePath, JSONstringify(touched), t),
               ret |-> Get(touched, "data")]
      ELSE [fs |-> fs, ret |-> Get(cacheEntry, "data")]

load(fs, cfg, t, sessionId) ==
  LET filePath == getSessionFilePath(sessionId) IN
  IF ~existsSync(fs, filePath) THEN [fs |-> fs, ret |-> Null]
  ELSE IF ParseThrows(fs[filePath].bytes)
    THEN [fs |-> unlinkSync(fs, filePath), ret |-> Null]
  ELSE LET cacheEntry == JSONparse(fs[filePath].bytes) IN
    IF isExpired(cacheEntry, t)
      THEN [fs |-> unlinkSync(fs, filePath), ret |-> Null]
    ELSE IF cfg.evictionPolicy = "lru"
      THEN LET touched == With(With(cacheEntry, "data",
                                  With(Get(cacheEntry, "data"), "lastAccessedAt", Num(t))),
                               "timestamp", Num(t))
           IN [fs |-> writeFileSync(fs, filePath, JSONstringify(touched), t),
               ret |-> Get(touched, "data")]
      ELSE [fs |-> fs, ret |-> Get(cacheEntry, "data")]

\* load when a file-system call inside its try throws for a file that
\* exists: readFileSync, or the writeFileSync of the LRU refresh (which may
\* have truncated the file).  The catch logs, tries unlinkSync(filePath),
\* ignoring a failure of that too, and returns null.
loadThrows(fs, cfg, t, sessionId, call) ==
  LET filePath == getSessionFilePath(sessionId)
      left == IF call = "readFileSync" THEN {fs} ELSE writeFileSyncThrows(fs, filePath, t)
  IN {[fs |-> after, ret |-> Null] :
        after \in UNION {{unlinkSync(l, filePath), l} : l \in left}}

\* the arrays list may return: one per listing order
list(fs, t) ==
  {LET keep == SelectSeq(listing, LAMBDA k :
                  /\ ~ParseThrows(fs[k].bytes)
                  /\ isLive(JSONparse(fs[k].bytes), t))
   IN Arr([i \in 1..Len(keep) |-> Get(JSONparse(fs[keep[i]].bytes), "data")]) :
     listing \in readdirSync(fs)}

deleteReportsTrue(fs, sessionId) ==
  LET filePath == getSessionFilePath(sessionId) IN
  IF existsSync(fs, filePath)
    THEN [fs |-> unlinkSync(fs, filePath), ret |-> Bool(TRUE)]
    ELSE [fs |-> fs, ret |-> Bool(TRUE)]

delete(fs, sessionId) ==
  LET filePath == getSessionFilePath(sessionId) IN
  IF existsSync(fs, filePath)
    THEN [fs |-> unlinkSync(fs, filePath), ret |-> Bool(TRUE)]
    ELSE [fs |-> fs, ret |-> Bool(FALSE)]

\* getStats: sessionCount is the number of .json files in the directory
\* (every file of the model is one); toolName and cacheDir are fixed
getStats(fs, cfg) ==
  Obj([sessionCount |-> Num(Cardinality(DOMAIN fs)),
       ttl |-> Num(cfg.ttl),
       maxSessions |-> Num(cfg.maxSessions),
       evictionPolicy |-> Str(cfg.evictionPolicy)])

\* delete when its unlinkSync throws (the file exists and cannot be
\* removed): the catch logs and returns false
deleteThrows(fs, sessionId) == [fs |-> fs, ret |-> Bool(FALSE)]

----------------------------------------------------------------------------
(* The ask-gemini tool's session manager (AskGeminiSessionManager) over a  *)
(* SessionManager('ask-gemini').  contextFiles and metadata are left out.  *)

createSession(sessionId, t) ==
  Obj([sessionId |-> Str(sessionId), createdAt |-> Num(t), lastAccessedAt |-> Num(t),
       conversationHistory |-> Arr(<<>>), totalRounds |-> Num(0)])

\* getOrCreate is async: the call runs load (synchronous under its awaits)
\* and returns a Promise of the session
getOrCreate(fs, cfg, t, sessionId) ==
  LET r == load(fs, cfg, t, sessionId) IN
  [fs |-> r.fs, ret |-> Promise(IF r.ret # Null THEN r.ret ELSE createSession(sessionId, t))]

\* addRound(session, ...): session.conversationHistory.push(...) throws a
\* TypeError when the property is undefined; else the round is appended,
\* totalRounds incremented and lastAccessedAt set
addRound(session, t) ==
  IF Prop(session, "conversationHistory") = Undefined THEN Threw
  ELSE LET rounds == Get(session, "conversationHistory").v
           round == Obj([roundNumber |-> Num(Get(session, "totalRounds").v + 1),
                         timestamp |-> Num(t)])
       IN With(With(With(session, "conversationHistory", Arr(Append(rounds, round))),
                    "totalRounds", Num(Get(session, "totalRounds").v + 1)),
               "lastAccessedAt", Num(t))

----------------------------------------------------------------------------
(* The brainstorm tool's session manager (BrainstormSessionManager) over a *)
(* SessionManager('brainstorm'); its methods are synchronous.              *)

brainstormCreateSession(sessionId, t) ==
  Obj([sessionId |-> Str(sessionId), createdAt |-> Num(t), lastAccessedAt |-> Num(t),
       challenge |-> Str("challenge"), methodology |-> Str("auto"),
       domain |-> Undefined, constraints |-> Undefined,
       rounds |-> Arr(<<>>), totalIdeas |-> Num(0), activeIdeas |-> Num(0),
       refinementHistory |-> Arr(<<>>)])

brainstormGetOrCreateSaves(fs, cfg, t, sessionId) ==
  LET r == load(fs, cfg, t, sessionId)
      created == brainstormCreateSession(sessionId, t)
  IN IF r.ret # Null
       THEN [fs |-> r.fs, ret |-> r.ret]
       ELSE [fs |-> save(r.fs, cfg, t, sessionId, created), ret |-> created]

brainstormGetOrCreate(fs, cfg, t, sessionId) ==
  LET r == load(fs, cfg, t, sessionId) IN
  [fs |-> r.fs,
   ret |-> IF r.ret # Null THEN r.ret ELSE brainstormCreateSession(sessionId, t)]

\* the ideas of all rounds of a brainstorm session, as a set
IdeasOf(session) ==
  LET rounds == Get(session, "rounds").v IN
  UNION {{Get(rounds[i], "ideasGenerated").v[j] :
            j \in 1..Len(Get(rounds[i], "ideasGenerated").v)} : i \in 1..Len(rounds)}

\* addRound(session, ...) with n ideas: each gets a new ideaId (randomUUID;
\* here the next unused numbers) and status 'active'
brainstormAddRound(session, t, n) ==
  LET rounds == Get(session, "rounds").v
      used == Cardinality(IdeasOf(session))
      parsedIdeas == [i \in 1..n |-> Obj([ideaId |-> Num(used + i), status |-> Str("active")])]
      round == Obj([roundNumber |-> Num(Len(rounds) + 1), timestamp |-> Num(t),
                    ideasGenerated |-> Arr(parsedIdeas)])
  IN With(With(With(With(session, "rounds", Arr(Append(rounds, round))),
                    "totalIdeas", Num(Get(session, "totalIdeas").v + n)),
               "activeIdeas", Num(Get(session, "activeIdeas").v + n)),
          "lastAccessedAt", Num(t))

\* refineIdeas(session, action, ideaIds, reason): the action is recorded;
\* every idea named gets the status of the action, and activeIdeas is
\* decremented once per idea named when the action is 'discarded' or 'merged'
brainstormRefineIdeas(session, t, action, ideaIds) ==
  LET rounds == Get(session, "rounds").v
      history == Get(session, "refinementHistory").v
      named == {idea \in IdeasOf(session) : Get(idea, "ideaId").v \in ideaIds}
      refined(idea) == IF Get(idea, "ideaId").v \in ideaIds
                         THEN With(idea, "status", Str(action))
                         ELSE idea
      ideasOf(round) == Get(round, "ideasGenerated").v
      updated == [i \in 1..Len(rounds) |->
                    With(rounds[i], "ideasGenerated",
                         Arr([j \in 1..Len(ideasOf(rounds[i])) |-> refined(ideasOf(rounds[i])[j])]))]
      entry == Obj([timestamp |-> Num(t), action |-> Str(action), ideaIds |-> ideaIds])
  IN With(With(With(session, "refinementHistory", Arr(Append(history, entry))),
               "rounds", Arr(updated)),
          "activeIdeas", Num(Get(session, "activeIdeas").v -
                               (IF action \in {"discarded", "merged"}
                                  THEN Cardinality(named) ELSE 0)))

----------------------------------------------------------------------------
(* The review-code sessions: ReviewSessionManager over a                   *)
(* SessionManager('review-code'), and the deprecated reviewSessionCache    *)
(* with a directory of its own.  REVIEW_SESSION_TTL and                    *)
(* MAX_REVIEW_SESSIONS are the ttl and maxSessions of                      *)
(* DEFAULT_CONFIGS['review-code'] (24 hours, 20); both are passed as the   *)
(* configuration cfg, scaled down together.  Of an async function the      *)
(* value its Promise settles to is given.                                  *)

saveReviewSession(fs, cfg, t, session) ==
  save(fs, cfg, t, Get(session, "sessionId").v, session)

loadReviewSession(fs, cfg, t, sessionId) == load(fs, cfg, t, sessionId)

listActiveSessions(fs, t) == list(fs, t)

\* the deprecated cleanExpiredSessions: by the file's mtime, no file read
cacheCleanExpiredSessions(fs, cfg, t) ==
  [j \in {k \in DOMAIN fs : ~(t - fs[k].mtimeMs > cfg.ttl)} |-> fs[j]]

\* the names the deprecated enforceSessionLimits unlinks: oldest mtime first
cacheToRemove(fs, cfg, listing) ==
  IF Len(listing) <= cfg.maxSessions
    THEN {}
    ELSE LET key == [k \in DOMAIN fs |-> fs[k].mtimeMs]
             sorted == StableSort(listing, key)
         IN {sorted[i] : i \in 1..(Len(listing) - cfg.maxSessions)}

\* the deprecated saveReviewSession up to the write: the file is named by
\* the raw session id and holds the session as passed
cacheSaveReviewSession(fs, cfg, t, session) ==
  LET swept == cacheCleanExpiredSessions(fs, cfg, t)
      filePath == Get(session, "sessionId").v
      cacheEntry == Obj([session |-> session,
                         timestamp |-> Num(t),
                         expiryTime |-> Num(t + cfg.ttl)])
  IN writeFileSync(swept, filePath, JSONstringify(cacheEntry), t)

cacheLoadReviewSession(fs, t, sessionId) ==
  IF ~existsSync(fs, sessionId) THEN [fs |-> fs, ret |-> Null]
  ELSE IF ParseThrows(fs[sessionId].bytes)
    THEN [fs |-> unlinkSync(fs, sessionId), ret |-> Null]
  ELSE LET cacheEntry == JSONparse(fs[sessionId].bytes) IN
    IF t > Get(cacheEntry, "expiryTime").v
      THEN [fs |-> unlinkSync(fs, sessionId), ret |-> Null]
      ELSE [fs |-> fs, ret |-> Get(cacheEntry, "session")]

\* the array the deprecated listActiveSessions returns, given the listing
cacheListActiveSessions(fs, t, listing) ==
  LET keep == SelectSeq(listing, LAMBDA k :
                 /\ ~ParseThrows(fs[k].bytes)
                 /\ t <= Get(JSONparse(fs[k].bytes), "expiryTime").v)
  IN Arr([i \in 1..Len(keep) |-> Get(JSONparse(fs[keep[i]].bytes), "session")])

----------------------------------------------------------------------------
(* The review-code tool's handling of comment decisions.  A comment is     *)
(* its id, status and resolution; a decision is commentId, decision and    *)
(* notes.                                                                  *)

\* REVIEW.STATUS of the constants table
STATUS ==
  [PENDING |-> "pending", ACCEPTED |-> "accepted", REJECTED |-> "rejected",
   MODIFIED |-> "modified", DEFERRED |-> "deferred"]

\* the values the argument schema admits for a decision
DecisionEnum == {"accept", "reject", "modify", "defer"}

\* one turn of the loop of applyCommentDecisions on the array of comments
applyDecision(comments, decision) ==
  [i \in 1..Len(comments) |->
     IF Get(comments[i], "id") = Get(decision, "commentId")
       THEN LET decided == With(comments[i], "status", Get(decision, "decision"))
            IN IF Get(decision, "notes") \notin {Undefined, Str(<<>>)}
                 THEN With(decided, "resolution", Get(decision, "notes"))
                 ELSE decided
       ELSE comments[i]]

RECURSIVE applyDecisions(_, _)
applyDecisions(comments, decisions) ==
  IF decisions = <<>> THEN comments
  ELSE applyDecisions(applyDecision(comments, Head(decisions)), Tail(decisions))

\* applyCommentDecisions(session, decisions): the comments of allComments
\* are changed in place
applyCommentDecisions(session, decisions) ==
  With(session, "allComments", Arr(applyDecisions(Get(session, "allComments").v, decisions)))

----------------------------------------------------------------------------
(* State machine *)

None == [t |-> "none"]

\* history: what a handler finds at key k at time t
Found(fs, k, t) ==
  IF k \notin DOMAIN fs THEN "missing"
  ELSE IF fs[k].bytes.t # "json" THEN "corrupt"
  ELSE IF t > fs[k].bytes.v.v.expiryTime.v THEN "expired"
  ELSE "live"

Step(op, id, res, found, swept, evicted) ==
  [op |-> op, id |-> id, res |-> res, found |-> found, swept |-> swept, evicted |-> evicted,
   failed |-> ""]

\* history: the step, with the file-system call that failed in it
Failed(step, call) == [step EXCEPT !.failed = call]

\* history: the step, with the eviction victim whose unlinkSync failed
Stuck(step, k) ==
  [op |-> step.op, id |-> step.id, res |-> step.res, found |-> step.found,
   swept |-> step.swept, evicted |-> step.evicted, failed |-> "unlinkSync", stuck |-> k]

\* the invocations that may run side by side, and one that has not started
Procs == {1, 2}

\* pc: idle, sweep, sweep unlink, write, enforce, done; op and id: the
\* handler and its sessionId; at: the Date.now() the handler last read;
\* scan: listed files the sweep has yet to read; victim: the file the sweep
\* is about to unlink; fd: the opened file is still the directory's; ret:
\* the value returned.  History: stale, the keys whose entry the sweep
\* found expired; prior, the live record at the key when it was opened;
\* overlapped, another save was under way when this one began.
Idle ==
  [pc |-> "idle", op |-> "", id |-> <<>>, at |-> 0, scan |-> {}, victim |-> {},
   stale |-> {}, fd |-> FALSE, prior |-> Null, ret |-> Void, overlapped |-> FALSE]

\* the history of a key ends when its file is removed
Track(fs, hist) == [k \in Keys |-> IF k \in DOMAIN fs THEN hist[k] ELSE None]

\* the createdAt of the session object a caller holds for sessionId at time
\* t: that of createSession (now) or that of the session it loaded
CreatedAts(fs, t, sessionId) ==
  LET filePath == getSessionFilePath(sessionId) IN
  {t} \cup (IF existsSync(fs, filePath) /\ ~ParseThrows(fs[filePath].bytes)
              THEN {Get(Get(JSONparse(fs[filePath].bytes), "data"), "createdAt").v}
              ELSE {})

\* the session objects a caller may pass to save(sessionId, .) at time t
SessionObjects(fs, t, sessionId) ==
  {Obj([sessionId |-> Str(<<"a">>), createdAt |-> Num(c),
        lastAccessedAt |-> Num(c), value |-> pv]) :
     c \in CreatedAts(fs, t, sessionId), pv \in PayloadValues}

Init ==
  /\ now = 0
  /\ config \in [ttl : Ttls, maxSessions : Capacities, evictionPolicy : Policies]
  /\ files = <<>>
  /\ lastOp = Step("new", <<>>, Void, "", {}, {})
  /\ lastSaved = [k \in Keys |-> None]
  /\ procs = [p \in Procs |-> Idle]
  /\ reviewCache = <<>>

Tick ==
  /\ now < MaxTime
  /\ now' = now + 1
  /\ lastOp' = Step("tick", <<>>, Void, "", {}, {})
  /\ UNCHANGED <<reviewCache, config, files, lastSaved, procs>>

Save(sessionId, data) ==
  LET written == save(files, config, now, sessionId, data) IN
  \E limited \in enforceSessionLimits(written, config) :
    /\ files' = limited
    /\ lastOp' = Step("save", sessionId, Void,
                       Found(files, getSessionFilePath(sessionId), now),
                       DOMAIN files \ DOMAIN written,
                       DOMAIN written \ DOMAIN limited)
    /\ lastSaved' = Track(limited, [lastSaved EXCEPT ![getSessionFilePath(sessionId)] =
                                      [t |-> "some", id |-> sessionId,
                                       value |-> Get(data, "value"), at |-> now]])
    /\ UNCHANGED <<reviewCache, now, config, procs>>

Load(sessionId) ==
  LET r == load(files, config, now, sessionId) IN
  /\ files' = r.fs
  /\ lastOp' = Step("load", sessionId, r.ret,
                     Found(files, getSessionFilePath(sessionId), now), {}, {})
  /\ lastSaved' = Track(r.fs, lastSaved)
  /\ UNCHANGED <<reviewCache, now, config, procs>>

ListSweeps ==
  \E sessions \in list(files, now) :
    /\ files' = cleanExpiredSessions(files, now)
    /\ lastOp' = Step("list", <<>>, sessions, "", {}, {})
    /\ UNCHANGED <<reviewCache, now, config, lastSaved, procs>>

List ==
  \E sessions \in list(files, now) :
    /\ lastOp' = Step("list", <<>>, sessions, "", {}, {})
    /\ UNCHANGED <<reviewCache, now, config, files, lastSaved, procs>>

Delete(sessionId) ==
  LET r == delete(files, sessionId) IN
  /\ files' = r.fs
  /\ lastOp' = Step("delete", sessionId, r.ret,
                     Found(files, getSessionFilePath(sessionId), now), {}, {})
  /\ lastSaved' = Track(r.fs, lastSaved)
  /\ UNCHANGED <<reviewCache, now, config, procs>>

\* the environment damages the bytes of an entry (a torn or foreign write)
Corrupt(k) ==
  /\ k \in DOMAIN files
  /\ ~ParseThrows(files[k].bytes)
  /\ files' = writeFileSync(files, k, CorruptBytes, now)
  /\ lastSaved' = [lastSaved EXCEPT ![k] = None]
  /\ lastOp' = Step("corrupt", k, Void, "", {}, {})
  /\ UNCHANGED <<reviewCache, now, config, procs>>

Next ==
  \/ Tick
  \/ \E sessionId \in SessionIds : \E data \in SessionObjects(files, now, sessionId) : Save(sessionId, data)
  \/ \E sessionId \in SessionIds : Load(sessionId)
  \/ List
  \/ \E sessionId \in SessionIds : Delete(sessionId)
  \/ \E k \in Keys : Corrupt(k)

Spec == Init /\ [][Next]_vars

\* the same store configured with a ttl that outlasts three saves at
\* distinct times
InitLongTtl ==
  /\ now = 0
  /\ config \in [ttl : LongTtls, maxSessions : Capacities, evictionPolicy : Policies]
  /\ files = <<>>
  /\ lastOp = Step("new", <<>>, Void, "", {}, {})
  /\ lastSaved = [k \in Keys |-> None]
  /\ procs = [p \in Procs |-> Idle]
  /\ reviewCache = <<>>

SpecLongTtl == InitLongTtl /\ [][Next]_vars

----------------------------------------------------------------------------
(* Two invocations (server processes) on one namespace directory, each     *)
(* running one handler.  A save is taken call by call: the sweep reads one *)
(* file per step and unlinks an expired one in a later step; writeFileSync *)
(* opens the file (creating or truncating it) in one step and writes the   *)
(* data in a later one, to the file it opened: when that file has been     *)
(* unlinked meanwhile the data goes to no directory entry.  load, list and *)
(* enforceSessionLimits are each taken as one step.                        *)

\* the stores two earlier saves at time 0 can have left
PriorObject(sessionId) ==
  Obj([sessionId |-> Str(sessionId), createdAt |-> Num(0),
       lastAccessedAt |-> Num(0), value |-> Str("p")])

StoresAfterOne(cfg) ==
  UNION {enforceSessionLimits(save(<<>>, cfg, 0, id, PriorObject(id)), cfg) : id \in ConcurrentIds}

StoresAfterTwo(cfg) ==
  UNION {enforceSessionLimits(save(fs, cfg, 0, id, PriorObject(id)), cfg) :
           fs \in StoresAfterOne(cfg), id \in ConcurrentIds}

PriorStores(cfg) == {<<>>} \cup StoresAfterOne(cfg) \cup StoresAfterTwo(cfg)

\* the session object invocation p saves, created at time t
ProcObject(p, sessionId, t) ==
  Obj([sessionId |-> Str(sessionId), createdAt |-> Num(t),
       lastAccessedAt |-> Num(t), value |-> Num(p)])

\* the text invocation p writes
ProcBytes(p) ==
  save(<<>>, config, procs[p].at, procs[p].id,
       ProcObject(p, procs[p].id, procs[p].at))[getSessionFilePath(procs[p].id)].bytes

\* an unlink of a file detaches it from the invocations that have it open
Orphan(prs, removed) ==
  [p \in Procs |->
     IF prs[p].pc = "write" /\ getSessionFilePath(prs[p].id) \in removed
       THEN [prs[p] EXCEPT !.fd = FALSE]
       ELSE prs[p]]

InitConcurrent ==
  /\ now = 0
  /\ config \in [ttl : Ttls, maxSessions : Capacities, evictionPolicy : Policies]
  /\ files \in PriorStores(config)
  /\ lastOp = Step("new", <<>>, Void, "", {}, {})
  /\ lastSaved = [k \in Keys |-> None]
  /\ procs = [p \in Procs |-> Idle]
  /\ reviewCache = <<>>

\* save: ensureCacheDir, then cleanExpiredSessions lists the directory
StartSave(p, sessionId) ==
  /\ procs[p].pc = "idle"
  /\ procs' = [procs EXCEPT ![p] =
                 [Idle EXCEPT !.pc = "sweep", !.op = "save", !.id = sessionId,
                              !.at = now, !.scan = DOMAIN files,
                              !.overlapped = \E q \in Procs \ {p} :
                                 procs[q].op = "save" /\ procs[q].pc # "done"]]
  /\ UNCHANGED <<reviewCache, now, config, files, lastOp, lastSaved>>

SweepRead(p, k) ==
  /\ procs[p].pc = "sweep"
  /\ k \in procs[p].scan
  /\ procs' = [procs EXCEPT ![p] =
                 IF sweepRead(files, k, procs[p].at) = "unlink"
                   THEN [@ EXCEPT !.pc = "sweep unlink", !.victim = {k},
                                  !.stale = IF Found(files, k, procs[p].at) = "expired"
                                              THEN @ \cup {k} ELSE @,
                                  !.scan = @ \ {k}]
                   ELSE [@ EXCEPT !.scan = @ \ {k}]]
  /\ UNCHANGED <<reviewCache, now, config, files, lastOp, lastSaved>>

SweepUnlink(p) ==
  /\ procs[p].pc = "sweep unlink"
  /\ files' = [j \in DOMAIN files \ procs[p].victim |-> files[j]]
  /\ procs' = Orphan([procs EXCEPT ![p] = [@ EXCEPT !.pc = "sweep", !.victim = {}]],
                     procs[p].victim)
  /\ UNCHANGED <<reviewCache, now, config, lastOp, lastSaved>>

\* writeFileSync, first half: the file is created or truncated
SaveOpen(p) ==
  LET filePath == getSessionFilePath(procs[p].id) IN
  /\ procs[p].pc = "sweep" /\ procs[p].scan = {}
  /\ files' = writeFileSync(files, filePath, CorruptBytes, now)
  /\ procs' = [procs EXCEPT ![p] =
                 [@ EXCEPT !.pc = "write", !.at = now, !.fd = TRUE,
                           !.prior = IF Found(files, filePath, now) = "live"
                                       THEN Get(JSONparse(files[filePath].bytes), "data")
                                       ELSE Null]]
  /\ UNCHANGED <<reviewCache, now, config, lastOp, lastSaved>>

\* writeFileSync, second half: the data is written to the opened file
SaveWrite(p) ==
  LET filePath == getSessionFilePath(procs[p].id) IN
  /\ procs[p].pc = "write"
  /\ files' = IF procs[p].fd
                THEN [files EXCEPT ![filePath] =
                        [bytes |-> ProcBytes(p), birthtimeMs |-> @.birthtimeMs, mtimeMs |-> now]]
                ELSE files
  /\ procs' = [procs EXCEPT ![p] = [@ EXCEPT !.pc = "enforce", !.fd = FALSE]]
  /\ UNCHANGED <<reviewCache, now, config, lastOp, lastSaved>>

SaveEnforce(p) ==
  /\ procs[p].pc = "enforce"
  /\ \E limited \in enforceSessionLimits(files, config) :
       /\ files' = limited
       /\ procs' = Orphan([procs EXCEPT ![p] = [@ EXCEPT !.pc = "done"]],
                          DOMAIN files \ DOMAIN limited)
  /\ UNCHANGED <<reviewCache, now, config, lastOp, lastSaved>>

RunLoad(p, sessionId) ==
  LET r == load(files, config, now, sessionId) IN
  /\ procs[p].pc = "idle"
  /\ files' = r.fs
  /\ procs' = Orphan([procs EXCEPT ![p] =
                        [Idle EXCEPT !.pc = "done", !.op = "load", !.id = sessionId,
                                     !.at = now, !.ret = r.ret]],
                     DOMAIN files \ DOMAIN r.fs)
  /\ UNCHANGED <<reviewCache, now, config, lastOp, lastSaved>>

RunList(p) ==
  /\ procs[p].pc = "idle"
  /\ \E sessions \in list(files, now) :
       procs' = [procs EXCEPT ![p] =
                   [Idle EXCEPT !.pc = "done", !.op = "list", !.at = now, !.ret = sessions]]
  /\ UNCHANGED <<reviewCache, now, config, files, lastOp, lastSaved>>

NextConcurrent ==
  \/ Tick
  \/ \E p \in Procs : \E sessionId \in ConcurrentIds : StartSave(p, sessionId)
  \/ \E p \in Procs : \E k \in Keys : SweepRead(p, k)
  \/ \E p \in Procs : SweepUnlink(p)
  \/ \E p \in Procs : SaveOpen(p)
  \/ \E p \in Procs : SaveWrite(p)
  \/ \E p \in Procs : SaveEnforce(p)
  \/ \E p \in Procs : \E sessionId \in ConcurrentIds : RunLoad(p, sessionId)
  \/ \E p \in Procs : RunList(p)

SpecConcurrent == InitConcurrent /\ [][NextConcurrent]_vars

----------------------------------------------------------------------------
(* The store on a file system whose writes and removals may fail.          *)

SaveFails(sessionId) ==
  LET filePath == getSessionFilePath(sessionId) IN
  \E r \in saveThrows(files, config, now, sessionId) :
    /\ files' = r.fs
    /\ lastOp' = Failed(Step("save", sessionId, r.ret, Found(files, filePath, now),
                              DOMAIN files \ DOMAIN cleanExpiredSessions(files, now),
                              (DOMAIN cleanExpiredSessions(files, now) \cup {filePath}) \ DOMAIN r.fs),
                         "writeFileSync")
    /\ lastSaved' = Track(r.fs, IF filePath \in DOMAIN r.fs /\ ParseThrows(r.fs[filePath].bytes)
                                  THEN [lastSaved EXCEPT ![filePath] = None]
                                  ELSE lastSaved)
    /\ UNCHANGED <<reviewCache, now, config, procs>>

DeleteFails(sessionId) ==
  LET r == deleteThrows(files, sessionId) IN
  /\ existsSync(files, getSessionFilePath(sessionId))
  /\ files' = r.fs
  /\ lastOp' = Failed(Step("delete", sessionId, r.ret,
                            Found(files, getSessionFilePath(sessionId), now), {}, {}),
                       "unlinkSync")
  /\ UNCHANGED <<reviewCache, now, config, lastSaved, procs>>

NextFaults ==
  \/ Tick
  \/ \E sessionId \in FaultIds : \E data \in SessionObjects(files, now, sessionId) : Save(sessionId, data)
  \/ \E sessionId \in FaultIds : SaveFails(sessionId)
  \/ \E sessionId \in FaultIds : Delete(sessionId)
  \/ \E sessionId \in FaultIds : DeleteFails(sessionId)

SpecFaults == Init /\ [][NextFaults]_vars

----------------------------------------------------------------------------
(* The store given any SessionData by its caller: save is public and takes *)
(* createdAt as the caller supplies it.                                    *)

AnySessionObjects ==
  {Obj([sessionId |-> Str(<<"a">>), createdAt |-> Num(c),
        lastAccessedAt |-> Num(c), value |-> pv]) :
     c \in 0..MaxTime, pv \in PayloadValues}

NextAnyPayload ==
  \/ Tick
  \/ \E sessionId \in PayloadIds : \E data \in AnySessionObjects : Save(sessionId, data)
  \/ \E sessionId \in PayloadIds : Load(sessionId)

SpecAnyPayload == Init /\ [][NextAnyPayload]_vars

----------------------------------------------------------------------------
(* The store saved into, with writes that may fail, so that a save can     *)
(* find the directory over capacity and expired entries in it at once.     *)

NextSweep ==
  \/ Tick
  \/ \E sessionId \in SessionIds : \E data \in SessionObjects(files, now, sessionId) : Save(sessionId, data)
  \/ \E sessionId \in SessionIds : SaveFails(sessionId)

SpecSweep == Init /\ [][NextSweep]_vars

----------------------------------------------------------------------------
(* The ask-gemini tool invoked with a session id.  execute is async: it    *)
(* runs up to `await executeGeminiCLI(...)`, and resumes when that call    *)
(* settles; other invocations and the clock may move in between.           *)

InitAskGemini ==
  /\ now = 0
  /\ config \in [ttl : Ttls, maxSessions : Capacities, evictionPolicy : {"lru"}]
  /\ files = <<>>
  /\ lastOp = Step("new", <<>>, Void, "", {}, {})
  /\ lastSaved = [k \in Keys |-> None]
  /\ procs = [p \in Procs |-> Idle]
  /\ reviewCache = <<>>

\* execute, up to the await: the session is fetched and, when history is
\* to be included, sessionData.conversationHistory.length is read
ExecuteStart(p, session, includeHistory) ==
  LET r == getOrCreate(files, config, now, session)
      sessionData == r.ret
      found == Found(files, getSessionFilePath(session), now)
  IN /\ procs[p].pc = "idle"
     /\ files' = r.fs
     /\ lastSaved' = Track(r.fs, lastSaved)
     /\ IF includeHistory /\ Prop(sessionData, "conversationHistory") = Undefined
          THEN /\ procs' = procs
               /\ lastOp' = Failed(Step("ask-gemini", session, Threw, found, {}, {}),
                                   "conversationHistory.length")
          ELSE /\ procs' = [procs EXCEPT ![p] =
                              [Idle EXCEPT !.pc = "await executeGeminiCLI", !.op = "ask-gemini",
                                           !.id = session, !.at = now, !.prior = sessionData]]
               /\ lastOp' = Step("ask-gemini called", session, Void, found, {}, {})
     /\ UNCHANGED <<reviewCache, now, config>>

\* execute, resumed with Gemini's response: addRound, then save (whose
\* body runs SessionManager.save before its Promise is returned)
ExecuteResume(p) ==
  LET session == procs[p].id
      added == addRound(procs[p].prior, now)
      found == Found(files, getSessionFilePath(session), now)
  IN /\ procs[p].pc = "await executeGeminiCLI"
     /\ procs' = [procs EXCEPT ![p] = Idle]
     /\ IF added = Threw
          THEN /\ lastOp' = Failed(Step("ask-gemini", session, Threw, found, {}, {}),
                                   "conversationHistory.push")
               /\ UNCHANGED <<files, lastSaved>>
          ELSE LET sessionId == Get(added, "sessionId").v
                   written == save(files, config, now, sessionId, added)
               IN \E limited \in enforceSessionLimits(written, config) :
                    /\ files' = limited
                    /\ lastOp' = Step("ask-gemini", session, Str("response"), found,
                                       DOMAIN files \ DOMAIN written,
                                       DOMAIN written \ DOMAIN limited)
                    /\ lastSaved' = Track(limited,
                                          [lastSaved EXCEPT ![getSessionFilePath(sessionId)] =
                                             [t |-> "some", id |-> sessionId,
                                              value |-> Get(added, "value"), at |-> now]])
     /\ UNCHANGED <<reviewCache, now, config>>

\* execute, resumed with executeGeminiCLI rejected: the error propagates
ExecuteRejects(p) ==
  /\ procs[p].pc = "await executeGeminiCLI"
  /\ procs' = [procs EXCEPT ![p] = Idle]
  /\ lastOp' = Failed(Step("ask-gemini", procs[p].id, Threw,
                            Found(files, getSessionFilePath(procs[p].id), now), {}, {}),
                       "executeGeminiCLI")
  /\ UNCHANGED <<reviewCache, now, config, files, lastSaved>>

NextAskGemini ==
  \/ Tick
  \/ \E p \in Procs, session \in AskIds, includeHistory \in BOOLEAN :
       ExecuteStart(p, session, includeHistory)
  \/ \E p \in Procs : ExecuteResume(p)
  \/ \E p \in Procs : ExecuteRejects(p)

SpecAskGemini == InitAskGemini /\ [][NextAskGemini]_vars

----------------------------------------------------------------------------
(* The review sessions kept twice: each call is made on the                *)
(* ReviewSessionManager (directory files) and on the deprecated cache      *)
(* (directory reviewCache), with the same arguments at the same time.      *)
(* lastOp.res holds both results.  readdirSync lists the names the two     *)
(* directories share in the same order.                                    *)

InitReview ==
  /\ now = 0
  /\ config \in [ttl : Ttls \cup LongTtls, maxSessions : ReviewCapacities,
                  evictionPolicy : {"fifo"}]
  /\ files = <<>>
  /\ lastOp = Step("new", <<>>, Void, "", {}, {})
  /\ lastSaved = [k \in Keys |-> None]
  /\ procs = [p \in Procs |-> Idle]
  /\ reviewCache = <<>>

\* the session objects a caller may pass: as createNewSession makes them
\* (the review's own fields are left out)
ReviewSessions(fs, t) ==
  {Obj([sessionId |-> Str(id), createdAt |-> Num(t), lastAccessedAt |-> Num(t)]) :
     id \in ReviewIds}

\* an order of all names, and the listing of a directory in that order
NameOrders == readdirSync([k \in ReviewIds |-> Null])
ListedIn(fs, order) == SelectSeq(order, LAMBDA k : k \in DOMAIN fs)

SaveReviewSession(session) ==
  LET sessionId == Get(session, "sessionId").v
      written == saveReviewSession(files, config, now, session)
      cacheWritten == cacheSaveReviewSession(reviewCache, config, now, session)
  IN \E order \in NameOrders :
       LET listing == ListedIn(written, order)
           cacheListing == ListedIn(cacheWritten, order)
           limited == [j \in DOMAIN written \ toRemove(written, config, listing) |-> written[j]]
           cacheLimited == [j \in DOMAIN cacheWritten \ cacheToRemove(cacheWritten, config, cacheListing)
                              |-> cacheWritten[j]]
       IN /\ files' = limited
          /\ reviewCache' = cacheLimited
          /\ lastOp' = Step("saveReviewSession", sessionId,
                             [current |-> Void, deprecated |-> Void],
                             Found(files, getSessionFilePath(sessionId), now),
                             DOMAIN files \ DOMAIN written,
                             DOMAIN written \ DOMAIN limited)
          /\ lastSaved' = Track(limited, [lastSaved EXCEPT ![getSessionFilePath(sessionId)] =
                                            [t |-> "some", id |-> sessionId,
                                             value |-> Get(session, "value"), at |-> now]])
          /\ UNCHANGED <<now, config, procs>>

LoadReviewSession(sessionId) ==
  LET r == loadReviewSession(files, config, now, sessionId)
      c == cacheLoadReviewSession(reviewCache, now, sessionId)
  IN /\ files' = r.fs
     /\ reviewCache' = c.fs
     /\ lastOp' = Step("loadReviewSession", sessionId,
                        [current |-> r.ret, deprecated |-> c.ret],
                        Found(files, getSessionFilePath(sessionId), now), {}, {})
     /\ lastSaved' = Track(r.fs, lastSaved)
     /\ UNCHANGED <<now, config, procs>>

ListActiveSessions ==
  \E order \in NameOrders :
    \E sessions \in {x \in listActiveSessions(files, now) :
                       \A i \in 1..Len(x.v) :
                         getSessionFilePath(Get(x.v[i], "sessionId").v) =
                           SelectSeq(ListedIn(files, order),
                                     LAMBDA k : Found(files, k, now) = "live")[i]} :
      /\ lastOp' = Step("listActiveSessions", <<>>,
                         [current |-> sessions,
                          deprecated |-> cacheListActiveSessions(reviewCache, now,
                                                                   ListedIn(reviewCache, order))],
                         "", {}, {})
      /\ UNCHANGED <<now, config, files, lastSaved, procs, reviewCache>>

NextReview ==
  \/ Tick
  \/ \E session \in ReviewSessions(files, now) : SaveReviewSession(session)
  \/ \E sessionId \in ReviewIds : LoadReviewSession(sessionId)
  \/ ListActiveSessions

SpecReview == InitReview /\ [][NextReview]_vars

----------------------------------------------------------------------------
(* The store loaded from, with reads and refresh writes that may fail.     *)

LoadFails(sessionId, call) ==
  LET filePath == getSessionFilePath(sessionId) IN
  /\ existsSync(files, filePath)
  /\ call = "writeFileSync" =>
       /\ Found(files, filePath, now) = "live"
       /\ config.evictionPolicy = "lru"
  /\ \E r \in loadThrows(files, config, now, sessionId, call) :
       /\ files' = r.fs
       /\ lastOp' = Failed(Step("load", sessionId, r.ret, Found(files, filePath, now), {}, {}),
                           call)
       /\ lastSaved' = Track(r.fs, IF filePath \in DOMAIN r.fs /\ ParseThrows(r.fs[filePath].bytes)
                                     THEN [lastSaved EXCEPT ![filePath] = None]
                                     ELSE lastSaved)
       /\ UNCHANGED <<reviewCache, now, config, procs>>

NextLoadFaults ==
  \/ Tick
  \/ \E sessionId \in FaultIds : \E data \in SessionObjects(files, now, sessionId) : Save(sessionId, data)
  \/ \E sessionId \in FaultIds : Load(sessionId)
  \/ \E sessionId \in FaultIds, call \in {"readFileSync", "writeFileSync"} : LoadFails(sessionId, call)

SpecLoadFaults == Init /\ [][NextLoadFaults]_vars

----------------------------------------------------------------------------
(* The store saved into, with writes that may fail (leaving the directory  *)
(* over capacity) and eviction victims that cannot be removed.             *)

InitEvictFaults ==
  /\ now = 0
  /\ config \in [ttl : LongTtls, maxSessions : {1}, evictionPolicy : Policies]
  /\ files = <<>>
  /\ lastOp = Step("new", <<>>, Void, "", {}, {})
  /\ lastSaved = [k \in Keys |-> None]
  /\ procs = [p \in Procs |-> Idle]
  /\ reviewCache = <<>>

SaveEvictFails(sessionId, data, stuck) ==
  LET written == save(files, config, now, sessionId, data) IN
  \E limited \in enforceSessionLimitsThrows(written, config, stuck) :
    /\ files' = limited
    /\ lastOp' = Stuck(Step("save", sessionId, Void,
                             Found(files, getSessionFilePath(sessionId), now),
                             DOMAIN files \ DOMAIN written,
                             DOMAIN written \ DOMAIN limited), stuck)
    /\ lastSaved' = Track(limited, [lastSaved EXCEPT ![getSessionFilePath(sessionId)] =
                                      [t |-> "some", id |-> sessionId,
                                       value |-> Get(data, "value"), at |-> now]])
    /\ UNCHANGED <<reviewCache, now, config, procs>>

\* the session objects a caller has just created at time t
NewSessionObjects(t) ==
  {data \in SessionObjects(<<>>, t, <<"a">>) : Get(data, "value") # Undefined}

NextEvictFaults ==
  \/ Tick
  \/ \E sessionId \in SessionIds : \E data \in NewSessionObjects(now) : Save(sessionId, data)
  \/ \E sessionId \in SessionIds : SaveFails(sessionId)
  \/ \E sessionId \in SessionIds : \E data \in NewSessionObjects(now) :
       \E stuck \in Keys : SaveEvictFails(sessionId, data, stuck)

SpecEvictFaults == InitEvictFaults /\ [][NextEvictFaults]_vars

----------------------------------------------------------------------------
(* getOrCreate of the ask-gemini or the brainstorm session manager, on the *)
(* namespace of that tool (config.toolName); the session it returned may   *)
(* then be saved.                                                          *)

InitGetOrCreate ==
  /\ now = 0
  /\ config \in [toolName : {"ask-gemini", "brainstorm"}, ttl : Ttls,
                  maxSessions : Capacities, evictionPolicy : {"lru"}]
  /\ files = <<>>
  /\ lastOp = Step("new", <<>>, Void, "", {}, {})
  /\ lastSaved = [k \in Keys |-> None]
  /\ procs = [p \in Procs |-> Idle]
  /\ reviewCache = <<>>

\* the value a caller has after awaiting x
Settled(x) == IF x.t = "promise" THEN x.settled ELSE x

GetOrCreate(sessionId) ==
  LET r == IF config.toolName = "ask-gemini"
             THEN getOrCreate(files, config, now, sessionId)
             ELSE brainstormGetOrCreate(files, config, now, sessionId)
  IN /\ files' = r.fs
     /\ lastOp' = Step("getOrCreate", sessionId, r.ret,
                        Found(files, getSessionFilePath(sessionId), now), {}, {})
     /\ lastSaved' = Track(r.fs, lastSaved)
     /\ UNCHANGED <<reviewCache, now, config, procs>>

\* manager.save(session) of the session getOrCreate has just returned
SaveSession ==
  /\ lastOp.op = "getOrCreate"
  /\ Save(Get(Settled(lastOp.res), "sessionId").v, Settled(lastOp.res))

NextGetOrCreate ==
  \/ Tick
  \/ \E sessionId \in AskIds : GetOrCreate(sessionId)
  \/ SaveSession
  \/ \E k \in Keys : Corrupt(k)

SpecGetOrCreate == InitGetOrCreate /\ [][NextGetOrCreate]_vars

----------------------------------------------------------------------------
(* A brainstorm session in memory: created, then given rounds and          *)
(* refinements.  lastOp.res is the session object, which the calls mutate. *)

InitBrainstorm ==
  /\ now = 0
  /\ config \in [ttl : Ttls, maxSessions : {1}, evictionPolicy : {"lru"}]
  /\ files = <<>>
  /\ lastOp = Step("createSession", <<"a">>, brainstormCreateSession(<<"a">>, 0), "", {}, {})
  /\ lastSaved = [k \in Keys |-> None]
  /\ procs = [p \in Procs |-> Idle]
  /\ reviewCache = <<>>

AddRound(n) ==
  /\ lastOp.op \in {"createSession", "addRound", "refineIdeas"}
  /\ Len(Get(lastOp.res, "rounds").v) < MaxRounds
  /\ lastOp' = Step("addRound", lastOp.id, brainstormAddRound(lastOp.res, now, n), "", {}, {})
  /\ UNCHANGED <<reviewCache, now, config, files, lastSaved, procs>>

RefineIdeas(action, ideaIds) ==
  /\ lastOp.op \in {"createSession", "addRound", "refineIdeas"}
  /\ Len(Get(lastOp.res, "refinementHistory").v) < MaxRefinements
  /\ lastOp' = Step("refineIdeas", lastOp.id,
                     brainstormRefineIdeas(lastOp.res, now, action, ideaIds), "", {}, {})
  /\ UNCHANGED <<reviewCache, now, config, files, lastSaved, procs>>

NextBrainstorm ==
  \/ \E n \in 0..MaxIdeas : AddRound(n)
  \/ \E action \in {"refined", "merged", "discarded"} :
       \E ideaIds \in {ids \in SUBSET (1..(MaxRounds * MaxIdeas)) : Cardinality(ids) \in 1..2} :
         RefineIdeas(action, ideaIds)

SpecBrainstorm == InitBrainstorm /\ [][NextBrainstorm]_vars

----------------------------------------------------------------------------
(* A review session in memory over the rounds of the review-code tool:     *)
(* each round applies the caller's comment decisions, then appends the     *)
(* comments parsed from Gemini's response.  lastOp.res is the session.     *)

InitReviewComments ==
  /\ now = 0
  /\ config \in [ttl : Ttls, maxSessions : {1}, evictionPolicy : {"fifo"}]
  /\ files = <<>>
  /\ lastOp = Step("createNewSession", <<"a">>,
                    Obj([sessionId |-> Str(<<"a">>), createdAt |-> Num(0), lastAccessedAt |-> Num(0),
                         allComments |-> Arr(<<>>), totalRounds |-> Num(0)]),
                    "", {}, {})
  /\ lastSaved = [k \in Keys |-> None]
  /\ procs = [p \in Procs |-> Idle]
  /\ reviewCache = <<>>

\* the arrays commentDecisions may be (a comment id names a comment of the
\* first round, or none when that round added fewer)
CommentDecisions ==
  UNION {[1..n -> {Obj([commentId |-> Num(c), decision |-> Str(d), notes |-> nt]) :
                     c \in 1..MaxComments, d \in DecisionEnum,
                     nt \in {Undefined, Str("note")}}] : n \in 0..MaxDecisions}

\* the comments a round adds: new ids, status pending
NewComments(session, n) ==
  LET used == Len(Get(session, "allComments").v) IN
  [i \in 1..n |-> Obj([id |-> Num(used + i), status |-> Str(STATUS.PENDING)])]

ReviewRound(decisions, n) ==
  LET decided == applyCommentDecisions(lastOp.res, decisions)
      session == With(With(With(decided, "allComments",
                                Arr(Get(decided, "allComments").v \o NewComments(decided, n))),
                           "totalRounds", Num(Get(decided, "totalRounds").v + 1)),
                      "lastAccessedAt", Num(now))
  IN /\ lastOp.op \in {"createNewSession", "review-code"}
     /\ Get(lastOp.res, "totalRounds").v < MaxRounds
     /\ lastOp' = Step("review-code", decisions, session, "", {}, {})
     /\ UNCHANGED <<reviewCache, now, config, files, lastSaved, procs>>

NextReviewComments ==
  \E decisions \in CommentDecisions : \E n \in 0..MaxComments : ReviewRound(decisions, n)

SpecReviewComments == InitReviewComments /\ [][NextReviewComments]_vars

----------------------------------------------------------------------------
(* The store with its statistics read.                                     *)

Stats ==
  /\ lastOp' = Step("getStats", <<>>, getStats(files, config), "", {}, {})
  /\ UNCHANGED <<reviewCache, now, config, files, lastSaved, procs>>

NextStats ==
  \/ Tick
  \/ \E sessionId \in StatsIds : \E data \in SessionObjects(files, now, sessionId) : Save(sessionId, data)
  \/ List
  \/ Stats

SpecStats == Init /\ [][NextStats]_vars

----------------------------------------------------------------------------
(* The store used through ids that collide on one key.                     *)

NextCollide ==
  \/ Tick
  \/ \E sessionId \in CollidingIds : \E data \in SessionObjects(files, now, sessionId) : Save(sessionId, data)
  \/ \E sessionId \in CollidingIds : Load(sessionId)
  \/ \E sessionId \in CollidingIds : Delete(sessionId)

SpecCollide == Init /\ [][NextCollide]_vars

----------------------------------------------------------------------------
(* Key sanitisation on its own: getSessionFilePath applied to a raw id,    *)
(* and then to the key it produced.                                        *)

InitSanitize ==
  /\ now = 0
  /\ config = [ttl |-> 1, maxSessions |-> 1, evictionPolicy |-> "lru"]
  /\ files = <<>>
  /\ \E sessionId \in RawIds : lastOp = Step("input", sessionId, Void, "", {}, {})
  /\ lastSaved = [k \in Keys |-> None]
  /\ procs = [p \in Procs |-> Idle]
  /\ reviewCache = <<>>

Resolve ==
  /\ lastOp.op = "input"
  /\ lastOp' = Step("getSessionFilePath", lastOp.id,
                     Str(getSessionFilePath(lastOp.id)), "id", {}, {})
  /\ UNCHANGED <<reviewCache, now, config, files, lastSaved, procs>>

ResolveKey ==
  /\ lastOp.op = "getSessionFilePath" /\ lastOp.found = "id"
  /\ lastOp' = Step("getSessionFilePath", lastOp.id,
                     Str(getSessionFilePath(lastOp.res.v)), "key", {}, {})
  /\ UNCHANGED <<reviewCache, now, config, files, lastSaved, procs>>

ResolveAgain ==
  /\ lastOp.op = "getSessionFilePath" /\ lastOp.found = "id"
  /\ lastOp' = Step("getSessionFilePath", lastOp.id,
                     Str(getSessionFilePath(lastOp.id)), "id again", {}, {})
  /\ UNCHANGED <<reviewCache, now, config, files, lastSaved, procs>>

NextSanitize == Resolve \/ ResolveKey \/ ResolveAgain

SpecSanitize == InitSanitize /\ [][NextSanitize]_vars

----------------------------------------------------------------------------
(* Construction on its own: new SessionManager(toolName, customConfig).    *)

InitConstruct ==
  /\ now = 0
  /\ config = None
  /\ files \in {NoDirectory, <<>>}
  /\ lastOp = Step("new", <<>>, Void, "", {}, {})
  /\ lastSaved = [k \in Keys |-> None]
  /\ procs = [p \in Procs |-> Idle]
  /\ reviewCache = <<>>

Construct(toolName, customConfig) ==
  /\ lastOp.op = "new"
  /\ config' = constructor(toolName, customConfig)
  /\ files' = ensureCacheDir(files)
  /\ lastOp' = Step("constructor", toolName, customConfig, "", {}, {})
  /\ UNCHANGED <<reviewCache, now, lastSaved, procs>>

NextConstruct ==
  \E toolName \in ToolNames : \E customConfig \in CustomConfigs :
    Construct(toolName, customConfig)

SpecConstruct == InitConstruct /\ [][NextConstruct]_vars

----------------------------------------------------------------------------
(* Properties *)

\* what a decodable file holds
DataOf(fs, k) == fs[k].bytes.v.v.data
ExpiresAt(fs, k) == fs[k].bytes.v.v.expiryTime.v
CreatedAtOf(fs, k) == DataOf(fs, k).v.createdAt.v
LastAccessOf(fs, k) == DataOf(fs, k).v.lastAccessedAt.v

\* C1: load never returns the record of an expired entry: it returns a
\* record only when it found the entry live (now <= expiresAt).
LoadNeverReturnsExpired ==
  lastOp.op = "load" /\ lastOp.res # Null => lastOp.found = "live"

LoadFoundExpired ==
  lastOp.op = "load" /\ lastOp.found = "expired" /\ lastOp.res = Null

\* C2: whenever a save has returned, the namespace holds at most
\* maxSessions physical entries.
CapacityBound ==
  lastOp.op = "save" => Cardinality(DOMAIN files) <= config.maxSessions

SaveEvicted ==
  /\ lastOp.op = "save"
  /\ lastOp.evicted # {}
  /\ Cardinality(DOMAIN files) = config.maxSessions

\* C3: a load(id) that follows save(id, p), before the entry expires and
\* with the entry not removed, rewritten by another save or corrupted in
\* between, returns a record whose payload field equals p's and whose
\* sessionId is id.
RoundTrip ==
  [][\A id \in SessionIds :
       LET k == getSessionFilePath(id) IN
       (/\ lastOp'.op = "load" /\ lastOp'.id = id
        /\ lastSaved[k].t = "some"
        /\ lastSaved[k].id = id
        /\ now <= lastSaved[k].at + config.ttl)
       => /\ lastOp'.res # Null
          /\ Get(lastOp'.res, "sessionId") = Str(id)
          /\ Get(lastOp'.res, "value") = lastSaved[k].value]_vars

LoadedWhatWasSaved ==
  /\ lastOp.op = "load" /\ lastOp.id = <<"c", "/">>
  /\ lastOp.res # Null
  /\ Get(lastOp.res, "sessionId") = Str(<<"c", "/">>)
  /\ Get(lastOp.res, "value") = Str("p")

\* C4 (as claimed): a save onto an id that has a live physical entry
\* keeps the createdAt of that entry.
CreatedAtSetOnce ==
  [][\A id \in SessionIds :
       LET k == getSessionFilePath(id) IN
       (/\ lastOp'.op = "save" /\ lastOp'.id = id
        /\ Found(files, k, now) = "live"
        /\ k \in DOMAIN files')
       => CreatedAtOf(files', k) = CreatedAtOf(files, k)]_vars

\* C5 (as claimed): under LRU with maxSessions = N >= 2 and N live
\* entries, a save of a new session right after a successful load keeps
\* the loaded entry and the new one and removes, among the others, one
\* whose last access is oldest.
LruEvictsLeastRecentlyUsed ==
  [][\A loaded, new \in SessionIds :
       LET kl == getSessionFilePath(loaded)
           kn == getSessionFilePath(new) IN
       (/\ config.evictionPolicy = "lru" /\ config.maxSessions >= 2
        /\ lastOp.op = "load" /\ lastOp.id = loaded /\ lastOp.res # Null
        /\ lastOp'.op = "save" /\ lastOp'.id = new
        /\ kn \notin DOMAIN files
        /\ Cardinality(DOMAIN files) = config.maxSessions
        /\ \A k \in DOMAIN files : Found(files, k, now) = "live")
       => \E v \in DOMAIN files \ {kl} :
            /\ \A w \in DOMAIN files \ {kl} : LastAccessOf(files, v) <= LastAccessOf(files, w)
            /\ DOMAIN files' = (DOMAIN files \cup {kn}) \ {v}]_vars

\* C6: under FIFO with maxSessions = N, when N sessions were created and
\* saved once each at pairwise distinct times, none has expired, and a new
\* session is saved at a later time, exactly the earliest-created one is
\* removed and the other N (the new one included) remain.
FifoEvictsEarliestCreated ==
  [][\A new \in SessionIds :
       LET kn == getSessionFilePath(new) IN
       (/\ config.evictionPolicy = "fifo"
        /\ lastOp'.op = "save" /\ lastOp'.id = new
        /\ kn \notin DOMAIN files
        /\ Cardinality(DOMAIN files) = config.maxSessions
        /\ \A k \in DOMAIN files :
             /\ Found(files, k, now) = "live"
             /\ lastSaved[k].t = "some"
             /\ lastSaved[k].at < now
             /\ CreatedAtOf(files, k) = lastSaved[k].at
             /\ files[k].birthtimeMs = lastSaved[k].at
        /\ \A j, k \in DOMAIN files : j # k => lastSaved[j].at # lastSaved[k].at)
       => \E v \in DOMAIN files :
            /\ \A w \in DOMAIN files : CreatedAtOf(files, v) <= CreatedAtOf(files, w)
            /\ DOMAIN files' = (DOMAIN files \cup {kn}) \ {v}]_vars

FifoEvictedOfThree ==
  /\ config.evictionPolicy = "fifo" /\ config.maxSessions = 2
  /\ lastOp.op = "save" /\ lastOp.found = "missing"
  /\ Cardinality(lastOp.evicted) = 1
  /\ lastOp.swept = {}
  /\ Cardinality(DOMAIN files) = 2
  /\ \A k \in DOMAIN files : lastSaved[k].t = "some" /\ files[k].birthtimeMs = lastSaved[k].at
  /\ \E k \in DOMAIN files : lastSaved[k].at = 1
  /\ \E k \in DOMAIN files : lastSaved[k].at = 2

\* C7: an entry saved at time s with ttl T, not saved again and not
\* removed or corrupted since, is returned by load at every time up to and
\* including s + T and is absent for load after s + T.
TtlBoundary ==
  [][\A id \in SessionIds :
       LET k == getSessionFilePath(id) IN
       (lastOp'.op = "load" /\ lastOp'.id = id /\ lastSaved[k].t = "some")
       => /\ now <= lastSaved[k].at + config.ttl => lastOp'.res # Null
          /\ now > lastSaved[k].at + config.ttl => lastOp'.res = Null]_vars

LoadedAtExpiryTime ==
  /\ lastOp.op = "load" /\ lastOp.res # Null
  /\ lastSaved[getSessionFilePath(lastOp.id)].t = "some"
  /\ now = lastSaved[getSessionFilePath(lastOp.id)].at + config.ttl

\* C8: a load that finds bytes that do not decode returns absent and
\* leaves no physical entry at that key.
CorruptSelfHeal ==
  lastOp.op = "load" /\ lastOp.found = "corrupt"
    => lastOp.res = Null /\ getSessionFilePath(lastOp.id) \notin DOMAIN files

LoadFoundCorrupt ==
  lastOp.op = "load" /\ lastOp.found = "corrupt" /\ lastOp.res = Null

\* C9: after a save no decodable entry past its expiry time is left in the
\* namespace; after a load of an id its entry is not one either, and a
\* load of an expired or missing entry returns absent; and an entry that
\* is gone reappears only by a save of its key.
ExpiredEntriesRemoved ==
  /\ [](lastOp.op = "save" => \A k \in DOMAIN files : Found(files, k, now) # "expired")
  /\ [](lastOp.op = "load" =>
          /\ Found(files, getSessionFilePath(lastOp.id), now) # "expired"
          /\ lastOp.found \in {"expired", "missing"} => lastOp.res = Null)
  /\ [][\A k \in Keys :
          k \notin DOMAIN files /\ k \in DOMAIN files'
            => lastOp'.op = "save" /\ getSessionFilePath(lastOp'.id) = k]_vars

SaveSweptExpired ==
  /\ config.evictionPolicy = "fifo" /\ config.maxSessions = 2
  /\ lastOp.op = "save" /\ lastOp.swept # {}
  /\ DOMAIN files = {getSessionFilePath(lastOp.id)}

\* C10: list returns exactly the records of the entries that decode and
\* are live (now <= expiresAt), each once.
ListReturnsLiveRecords ==
  lastOp.op = "list" =>
    LET live == {k \in DOMAIN files :
                   files[k].bytes.t = "json" /\ now <= ExpiresAt(files, k)}
    IN /\ {lastOp.res.v[i] : i \in 1..Len(lastOp.res.v)} = {DataOf(files, k) : k \in live}
       /\ Len(lastOp.res.v) = Cardinality(live)

ListSkippedExpired ==
  /\ lastOp.op = "list"
  /\ Len(lastOp.res.v) = 1
  /\ \E k \in DOMAIN files : Found(files, k, now) = "expired"

\* C15: delete(id) returns true exactly when a file existed at id's key
\* before the call; afterwards load(id) is absent and every other entry is
\* as it was.  A load or delete of an id with no file returns null / false
\* and leaves the namespace as it was.
DeleteAndAbsence ==
  [][\A id \in SessionIds :
       LET k == getSessionFilePath(id) IN
       /\ (lastOp'.op = "delete" /\ lastOp'.id = id)
            => /\ lastOp'.res = Bool(k \in DOMAIN files)
               /\ load(files', config, now, id).ret = Null
               /\ DOMAIN files' = DOMAIN files \ {k}
               /\ \A j \in DOMAIN files' : files'[j] = files[j]
       /\ (lastOp'.op = "load" /\ lastOp'.id = id /\ k \notin DOMAIN files)
            => lastOp'.res = Null /\ files' = files
       /\ (lastOp'.op = "delete" /\ lastOp'.id = id /\ k \notin DOMAIN files)
            => lastOp'.res = Bool(FALSE) /\ files' = files]_vars

DeletedOneOfTwo ==
  /\ lastOp.op = "delete" /\ lastOp.found # "missing"
  /\ lastOp.res = Bool(TRUE)
  /\ Cardinality(DOMAIN files) = 1

\* the key the specification describes: unsafe characters replaced by "-",
\* runs of "-" collapsed, leading and trailing "-" stripped, "session" when
\* nothing is left
RECURSIVE Collapsed(_)
Collapsed(s) ==
  IF Len(s) <= 1 THEN s
  ELSE IF s[1] = "-" /\ s[2] = "-" THEN Collapsed(Tail(s))
  ELSE <<s[1]>> \o Collapsed(Tail(s))

RECURSIVE Stripped(_)
Stripped(s) ==
  IF s # <<>> /\ s[1] = "-" THEN Stripped(Tail(s))
  ELSE IF s # <<>> /\ s[Len(s)] = "-" THEN Stripped(SubSeq(s, 1, Len(s) - 1))
  ELSE s

SpecifiedKey(sessionId) ==
  LET replaced == [i \in 1..Len(sessionId) |->
                     IF sessionId[i] \in SafeChars THEN sessionId[i] ELSE "-"]
      key == Stripped(Collapsed(replaced))
  IN IF key = <<>> THEN <<"s", "e", "s", "s", "i", "o", "n">> ELSE key

\* C17 (as claimed): the storage key of an id is the id with each unsafe
\* character replaced by "-", runs of "-" collapsed to one, leading and
\* trailing "-" stripped, and "session" when the result is empty.
SanitizedAsSpecified ==
  lastOp.op = "getSessionFilePath" /\ lastOp.found = "id"
    => lastOp.res = Str(SpecifiedKey(lastOp.id))

\* C18: sanitising the same id a second time gives the same key, and
\* sanitising a key that sanitisation produced gives that key again.
SanitizeIdempotent ==
  [][lastOp'.op = "getSessionFilePath" /\ lastOp'.found \in {"id again", "key"}
       => lastOp'.res = lastOp.res]_vars

SanitizedUnsafeTwice ==
  /\ lastOp.op = "getSessionFilePath" /\ lastOp.found = "key"
  /\ lastOp.id = <<"/", "a", ".">>
  /\ lastOp.res = Str(<<"-", "a", "-">>)

\* the defaults the claim lists: per namespace, else global
ClaimedDefaults(toolName) ==
  IF toolName = "review-code"
    THEN [ttl |-> 24 * 60 * 60 * 1000, maxSessions |-> 20, evictionPolicy |-> "fifo"]
  ELSE IF toolName = "ask-gemini"
    THEN [ttl |-> 7 * 24 * 60 * 60 * 1000, maxSessions |-> 50, evictionPolicy |-> "lru"]
  ELSE IF toolName = "brainstorm"
    THEN [ttl |-> 14 * 24 * 60 * 60 * 1000, maxSessions |-> 30, evictionPolicy |-> "lru"]
  ELSE [ttl |-> 24 * 60 * 60 * 1000, maxSessions |-> 20, evictionPolicy |-> "lru"]

\* C20: after construction each of ttl, maxSessions and evictionPolicy is
\* the caller's override when one is given (0 included), else the
\* namespace's built-in default, else the global default 24 h / 20 / LRU;
\* the built-in table is review-code 24 h / 20 / FIFO, ask-gemini
\* 7 d / 50 / LRU, brainstorm 14 d / 30 / LRU, and the shared constants
\* table says the same.
ConfigResolution ==
  lastOp.op = "constructor" =>
    LET toolName == lastOp.id
        customConfig == lastOp.res
    IN /\ \A f \in {"ttl", "maxSessions", "evictionPolicy"} :
            config[f] = IF OptGet(customConfig, f) # Undefined
                          THEN OptGet(customConfig, f).v
                          ELSE ClaimedDefaults(toolName)[f]
       /\ customConfig = Undefined =>
            IF toolName \in DOMAIN SESSION.TOOL_CONFIGS
              THEN /\ config.ttl = SESSION.TOOL_CONFIGS[toolName].TTL
                   /\ config.maxSessions = SESSION.TOOL_CONFIGS[toolName].MAX_SESSIONS
                   /\ config.evictionPolicy = SESSION.TOOL_CONFIGS[toolName].EVICTION_POLICY
              ELSE /\ config.ttl = SESSION.DEFAULT_TTL
                   /\ config.maxSessions = SESSION.DEFAULT_MAX_SESSIONS
                   /\ config.evictionPolicy = SESSION.DEFAULT_EVICTION_POLICY

ConstructedWithOneOverride ==
  /\ lastOp.op = "constructor" /\ lastOp.id = "ask-gemini"
  /\ lastOp.res = Obj([ttl |-> Num(0), maxSessions |-> Undefined, evictionPolicy |-> Undefined])
  /\ config = [ttl |-> 0, maxSessions |-> 50, evictionPolicy |-> "lru"]

\* the two colliding ids
CollidingPair == {<<"c", "/">>, <<"c", ".">>}

\* C19: the ids "c/" and "c." have one key and share one file.  After a
\* save through one of them the file holds that save's record and a load
\* through either returns it; a load through one returns what was last
\* saved through either; after a delete through one a load through either
\* is absent; and the namespace never holds a record for each of them.
CollidingIdsShareOneEntry ==
  [][\A id, other \in CollidingPair :
       LET k == getSessionFilePath(id) IN
       /\ getSessionFilePath(other) = k
       /\ (lastOp'.op = "save" /\ lastOp'.id = id /\ lastOp'.evicted = {})
            => /\ Get(DataOf(files', k), "sessionId") = Str(id)
               /\ load(files', config, now, other).ret # Null
               /\ Get(load(files', config, now, other).ret, "sessionId") = Str(id)
       /\ (/\ lastOp'.op = "load" /\ lastOp'.id = id
           /\ lastSaved[k].t = "some" /\ lastSaved[k].id = other
           /\ now <= lastSaved[k].at + config.ttl)
            => /\ lastOp'.res # Null
               /\ Get(lastOp'.res, "sessionId") = Str(other)
               /\ Get(lastOp'.res, "value") = lastSaved[k].value
       /\ (lastOp'.op = "delete" /\ lastOp'.id = id)
            => /\ lastOp'.res = Bool(k \in DOMAIN files)
               /\ load(files', config, now, other).ret = Null
       /\ Cardinality({j \in DOMAIN files' :
                         /\ ~ParseThrows(files'[j].bytes)
                         /\ Get(DataOf(files', j), "sessionId").v \in CollidingPair}) <= 1]_vars

LoadedThroughOtherId ==
  /\ lastOp.op = "load" /\ lastOp.id = <<"c", ".">>
  /\ lastOp.res # Null
  /\ Get(lastOp.res, "sessionId") = Str(<<"c", "/">>)
  /\ Get(lastOp.res, "value") = Str("p")

\* C13: a save whose write fails throws to its caller, leaves no new
\* record at the key (the write is not tried again), and evicts nothing:
\* every entry the expiry sweep keeps is still there, unchanged.
SaveWriteFailure ==
  [][\A id \in FaultIds :
       LET k == getSessionFilePath(id)
           swept == cleanExpiredSessions(files, now) IN
       (lastOp'.op = "save" /\ lastOp'.id = id /\ lastOp'.failed = "writeFileSync")
         => /\ lastOp'.res = Threw
            /\ k \in DOMAIN files' =>
                 \/ ParseThrows(files'[k].bytes)
                 \/ k \in DOMAIN files /\ files'[k] = files[k]
            /\ \A j \in DOMAIN swept : j \in DOMAIN files'
            /\ \A j \in DOMAIN swept \ {k} : files'[j] = files[j]]_vars

FailedSaveLeftOverCapacity ==
  /\ lastOp.op = "save" /\ lastOp.failed = "writeFileSync"
  /\ lastOp.res = Threw
  /\ Cardinality(DOMAIN files) > config.maxSessions

\* C14 (as claimed): a delete whose removal fails for a reason other than
\* absence throws to its caller; it does not return false.
DeleteFailurePropagates ==
  lastOp.op = "delete" /\ lastOp.failed = "unlinkSync"
    => lastOp.res = Threw /\ lastOp.res # Bool(FALSE)

\* C16 (as claimed): every stored record has lastAccessedAt >= createdAt,
\* whatever payload the caller passed to save.
LastAccessNotBeforeCreated ==
  \A k \in DOMAIN files :
    ~ParseThrows(files[k].bytes) => LastAccessOf(files, k) >= CreatedAtOf(files, k)

\* C11 (as claimed): a load or list that another invocation runs while a
\* save has opened the key's file and not yet written it sees the complete
\* previous entry or the complete new one: the load returns the previous
\* record or the new one, and absent only when there was no live previous
\* entry; the list holds a record for the key when there was one.
AtomicReplace ==
  [][\A p, q \in Procs :
       (/\ procs[q].op = "save" /\ procs[q].pc = "write" /\ procs[q].at = now
        /\ procs[p].pc = "idle" /\ procs'[p].pc = "done")
       => LET old == procs[q].prior
              new == Get(JSONparse(ProcBytes(q)), "data")
              ret == procs'[p].ret
          IN /\ (procs'[p].op = "load" /\ procs'[p].id = procs[q].id)
                  => IF ret = Null THEN old = Null
                     ELSE \/ Get(ret, "value") = Get(new, "value")
                          \/ old # Null /\ Get(ret, "value") = Get(old, "value")
             /\ (procs'[p].op = "list" /\ old # Null)
                  => \E i \in 1..Len(ret.v) :
                       /\ Get(ret.v[i], "sessionId") = Str(procs[q].id)
                       /\ Get(ret.v[i], "value") \in {Get(old, "value"), Get(new, "value")}]_vars

StatsCountsLiveEntries ==
  /\ [](lastOp.op = "getStats" =>
          /\ Get(lastOp.res, "sessionCount") =
               Num(Cardinality({k \in DOMAIN files : Found(files, k, now) = "live"}))
          /\ \A sessions \in list(files, now) :
               Get(lastOp.res, "sessionCount") = Num(Len(sessions.v)))
  /\ [][lastOp'.op = "getStats" => files' = files]_vars

\* C24: a save that evicts has swept first: every entry that was expired
\* when the save began is gone (or is the saved key, written anew), so no
\* expired entry is present beside the entries that eviction removed.
SweepPrecedesEviction ==
  [][lastOp'.op = "save" /\ lastOp'.failed = "" /\ lastOp'.evicted # {} =>
       /\ \A k \in DOMAIN files :
            Found(files, k, now) = "expired" =>
              k \in lastOp'.swept \/ k = getSessionFilePath(lastOp'.id)
       /\ \A k \in DOMAIN files' : Found(files', k, now') # "expired"]_vars

\* a save removed an expired entry in its sweep and another in eviction
SweptAndEvicted ==
  /\ lastOp.op = "save"
  /\ lastOp.failed = ""
  /\ lastOp.swept # {}
  /\ lastOp.evicted # {}

\* C25 (as claimed): a save never evicts the entry it has just written:
\* after every successful save the saved key is present and is not among
\* the evicted ones, under either policy and with equal timestamps.
SaveKeepsOwnEntry ==
  lastOp.op = "save" /\ lastOp.failed = "" =>
    /\ getSessionFilePath(lastOp.id) \in DOMAIN files
    /\ getSessionFilePath(lastOp.id) \notin lastOp.evicted

\* C26 (as claimed): under FIFO the entries a save evicts are those with
\* the smallest stored createdAt: no entry that stays was created, by its
\* stored createdAt, before an entry that was evicted (re-saves and
\* overwrites by a new session object included).
FifoEvictsSmallestCreatedAt ==
  [][(/\ config.evictionPolicy = "fifo"
      /\ lastOp'.op = "save" /\ lastOp'.failed = ""
      /\ \A k \in DOMAIN files : Found(files, k, now) = "live")
     => \A e \in lastOp'.evicted \ {getSessionFilePath(lastOp'.id)} :
          \A r \in DOMAIN files' :
            CreatedAtOf(files, e) <= CreatedAtOf(files', r)]_vars

\* C28 (as claimed): under either policy a load that returns a record
\* leaves the stored lastAccessedAt of the entry equal to the time of the
\* load, and a successful save leaves it equal to the time of the save.
LastAccessTracksEveryAccess ==
  [][\A id \in SessionIds :
       LET k == getSessionFilePath(id) IN
       /\ (lastOp'.op = "load" /\ lastOp'.id = id /\ lastOp'.res # Null)
            => k \in DOMAIN files' /\ LastAccessOf(files', k) = now'
       /\ (lastOp'.op = "save" /\ lastOp'.id = id /\ k \in DOMAIN files')
            => LastAccessOf(files', k) = now']_vars

\* C29 (as claimed): a save sweeps only when the directory holds, before
\* the write, at least 80% of maxSessions entries; below that a save
\* removes no entry of another key.
SweepOnlyAboveThreshold ==
  [][(/\ lastOp'.op = "save" /\ lastOp'.failed = ""
      /\ 5 * Cardinality(DOMAIN files) < 4 * config.maxSessions)
     => DOMAIN files \ {getSessionFilePath(lastOp'.id)} \subseteq DOMAIN files']_vars

\* C30 (as claimed): a load that finds its entry expired removes it and
\* sweeps the directory: afterwards no expired entry is present.
LoadOfExpiredSweeps ==
  [][(lastOp'.op = "load" /\ lastOp'.found = "expired")
     => /\ getSessionFilePath(lastOp'.id) \notin DOMAIN files'
        /\ \A k \in DOMAIN files' : Found(files', k, now') # "expired"]_vars

\* C27: reads do not extend expiry.  Under LRU a load that returns a
\* record rewrites the entry with lastAccessedAt set to the time of the
\* load and the same expiryTime; and a load later than ttl after the last
\* save of its id returns null, whatever was loaded in between.
ReadsDoNotExtendExpiry ==
  [][\A id \in PayloadIds :
       LET k == getSessionFilePath(id) IN
       (lastOp'.op = "load" /\ lastOp'.id = id /\ config.evictionPolicy = "lru") =>
         /\ lastOp'.res # Null =>
              /\ k \in DOMAIN files'
              /\ ExpiresAt(files', k) = ExpiresAt(files, k)
              /\ LastAccessOf(files', k) = now
         /\ (lastSaved[k].t = "some" /\ now > lastSaved[k].at + config.ttl) =>
              lastOp'.res = Null]_vars

\* an LRU load, later than the save, returned the record and refreshed
\* lastAccessedAt while the expiry stayed that of the save
LruLoadKeptExpiry ==
  /\ config.evictionPolicy = "lru"
  /\ lastOp.op = "load" /\ lastOp.res # Null
  /\ LET k == getSessionFilePath(lastOp.id) IN
       /\ lastSaved[k].t = "some"
       /\ now > lastSaved[k].at
       /\ LastAccessOf(files, k) = now
       /\ ExpiresAt(files, k) = lastSaved[k].at + config.ttl

\* the totalRounds of the session an invocation obtained, and of the live
\* entry stored at a key (0 when there is none)
ObtainedRounds(p) ==
  LET x == procs[p].prior IN
  IF x.t = "promise" THEN Get(x.settled, "totalRounds").v ELSE Get(x, "totalRounds").v
StoredRounds(fs, k, t) ==
  IF Found(fs, k, t) = "live" THEN DataOf(fs, k).v.totalRounds.v ELSE 0

\* C22 (as claimed): when the Gemini call of an ask-gemini invocation with
\* a session id succeeds, one round is appended to the session obtained
\* for it and the session is saved.  Taken where the stored session is
\* still the one obtained and the save need not evict: the stored session
\* then has one round more, and as many history rounds as totalRounds.
AskGeminiAppendsOneRound ==
  [][\A p \in Procs :
       LET k == getSessionFilePath(procs[p].id) IN
       (/\ procs[p].pc = "await executeGeminiCLI" /\ procs'[p].pc = "idle"
        /\ lastOp'.failed # "executeGeminiCLI"
        /\ StoredRounds(files, k, now) = ObtainedRounds(p)
        /\ Cardinality(DOMAIN files \cup {k}) <= config.maxSessions)
       => /\ k \in DOMAIN files'
          /\ DataOf(files', k).v.totalRounds.v = ObtainedRounds(p) + 1
          /\ Len(DataOf(files', k).v.conversationHistory.v) =
               DataOf(files', k).v.totalRounds.v]_vars

\* the session ids of the records in an array
IdsIn(sessions) == {Get(sessions.v[i], "sessionId") : i \in 1..Len(sessions.v)}

\* C23 (as claimed): through the ReviewSessionManager every sequence of
\* saveReviewSession, loadReviewSession and listActiveSessions calls with
\* file-system-safe ids gives what the deprecated reviewSessionCache
\* gives: a load finds a session in one exactly when it does in the other,
\* and of the same id; a listing names the same sessions.
DropInReplacement ==
  /\ lastOp.op = "loadReviewSession" =>
       /\ (lastOp.res.current = Null) <=> (lastOp.res.deprecated = Null)
       /\ lastOp.res.current # Null =>
            Get(lastOp.res.current, "sessionId") = Get(lastOp.res.deprecated, "sessionId")
  /\ lastOp.op = "listActiveSessions" =>
       IdsIn(lastOp.res.current) = IdsIn(lastOp.res.deprecated)

\* C31 (as claimed): a sweep removes the entries that do not decode as
\* well as the expired ones: after a save, which runs a sweep, no entry of
\* the directory fails to decode.
SweepRemovesUndecodable ==
  lastOp.op = "save" /\ lastOp.failed = "" =>
    \A k \in DOMAIN files : Found(files, k, now) # "corrupt"

\* C32 (as claimed): a load whose read or LRU refresh write fails on a
\* well-formed, unexpired entry reports the session absent and leaves the
\* entry in the directory, unchanged.
FailedLoadKeepsEntry ==
  [][\A id \in FaultIds :
       LET k == getSessionFilePath(id) IN
       (/\ lastOp'.op = "load" /\ lastOp'.id = id /\ lastOp'.failed # ""
        /\ Found(files, k, now) = "live")
       => /\ lastOp'.res = Null
          /\ k \in DOMAIN files'
          /\ files'[k] = files[k]]_vars

\* C33 (as claimed): eviction is deterministic under ties: the directory
\* a save leaves is determined by the entries and the configuration,
\* whatever order the directory is listed in.
EvictionDeterministic ==
  \A sessionId \in SessionIds : \A data \in SessionObjects(files, now, sessionId) :
    Cardinality(enforceSessionLimits(save(files, config, now, sessionId, data), config)) = 1

\* the time by which eviction orders the entry a save of key k writes
WrittenSortKey(k) ==
  IF config.evictionPolicy = "fifo" /\ k \in DOMAIN cleanExpiredSessions(files, now)
    THEN files[k].birthtimeMs
    ELSE now

\* C34: a save in whose eviction the removal of one victim fails returns
\* normally; the victim that could not be removed stays, the other victims
\* are removed (the directory is left exactly one over maxSessions), and
\* the entry just written, when it is newer than every other entry, is in
\* place with the time of the save.
FailedEvictionSkipped ==
  [][\A id \in SessionIds :
       LET k == getSessionFilePath(id) IN
       (lastOp'.op = "save" /\ lastOp'.id = id /\ lastOp'.failed = "unlinkSync") =>
         /\ lastOp'.res = Void
         /\ lastOp'.stuck \in DOMAIN files'
         /\ Cardinality(DOMAIN files') = config.maxSessions + 1
         /\ DOMAIN files' \subseteq DOMAIN cleanExpiredSessions(files, now) \cup {k}
         /\ (\A j \in DOMAIN cleanExpiredSessions(files, now) \ {k} :
               SortKey(files, config, j) < WrittenSortKey(k))
              => /\ k \in DOMAIN files'
                 /\ files'[k].mtimeMs = now
                 /\ Found(files', k, now') = "live"]_vars

\* a save removed one victim although the removal of another had failed,
\* and its own entry, the newest, stayed
SkippedOneRemovedOther ==
  /\ lastOp.op = "save"
  /\ lastOp.failed = "unlinkSync"
  /\ lastOp.evicted # {}
  /\ getSessionFilePath(lastOp.id) \in DOMAIN files
  /\ \A j \in DOMAIN files \ {getSessionFilePath(lastOp.id)} : files[j].mtimeMs < now

\* C35 (as claimed): constructing a store creates nothing on disk: the
\* namespace directory is as it was, absent if it was absent, until the
\* first operation that needs it.
ConstructionCreatesNothing ==
  [][lastOp'.op = "constructor" => files' = files]_vars

\* C36: no background reclamation: the passage of time, list() and
\* getStats() leave every file of the directory as it is, the expired
\* ones included; files change only in a step of save, load or delete.
NoBackgroundReclamation ==
  [][lastOp'.op \in {"tick", "list", "getStats"} => files' = files]_vars

\* list() skipped an expired entry, which is still in the directory
ListedOverExpiredEntry ==
  /\ lastOp.op = "list"
  /\ lastOp.res = Arr(<<>>)
  /\ \E k \in DOMAIN files : Found(files, k, now) = "expired"

\* a session as createSession makes it at time t: no rounds, and created
\* and last accessed at t
FreshSession(session, sessionId, t) ==
  /\ Get(session, "sessionId") = Str(sessionId)
  /\ Get(session, "createdAt") = Num(t)
  /\ Get(session, "lastAccessedAt") = Num(t)
  /\ \/ Get(session, "totalRounds") = Num(0) /\ Get(session, "conversationHistory") = Arr(<<>>)
     \/ Get(session, "totalIdeas") = Num(0) /\ Get(session, "rounds") = Arr(<<>>)

\* C37: getOrCreate(id) does not throw.  Where a live entry exists it
\* returns the stored record; where there is none, or an expired or an
\* undecodable one, it returns a fresh session (no rounds, createdAt =
\* lastAccessedAt = now) and writes nothing: every file then in the
\* directory was there before, unchanged, and none is at the key of id.
GetOrCreateContract ==
  [][\A id \in AskIds :
       LET k == getSessionFilePath(id) IN
       (lastOp'.op = "getOrCreate" /\ lastOp'.id = id) =>
         /\ lastOp'.res # Threw
         /\ Found(files, k, now) = "live" =>
              /\ k \in DOMAIN files'
              /\ Settled(lastOp'.res) = DataOf(files', k)
         /\ Found(files, k, now) # "live" =>
              /\ FreshSession(Settled(lastOp'.res), id, now)
              /\ k \notin DOMAIN files'
              /\ \A j \in DOMAIN files' : j \in DOMAIN files /\ files'[j] = files[j]]_vars

\* getOrCreate found an expired entry beside another entry and returned a
\* fresh session
CreatedOverExpired ==
  /\ lastOp.op = "getOrCreate"
  /\ lastOp.found = "expired"
  /\ FreshSession(Settled(lastOp.res), lastOp.id, now)
  /\ getSessionFilePath(lastOp.id) \notin DOMAIN files
  /\ files # <<>>

\* C38 (as claimed): after any sequence of addRound and refineIdeas calls
\* activeIdeas is the number of ideas whose status is neither 'discarded'
\* nor 'merged' (so it is not negative) and totalIdeas is the number of
\* ideas of all rounds.
IdeaCounters ==
  lastOp.op \in {"addRound", "refineIdeas"} =>
    /\ Get(lastOp.res, "activeIdeas").v =
         Cardinality({idea \in IdeasOf(lastOp.res) :
                        Get(idea, "status").v \notin {"discarded", "merged"}})
    /\ Get(lastOp.res, "activeIdeas").v >= 0
    /\ Get(lastOp.res, "totalIdeas").v = Cardinality(IdeasOf(lastOp.res))

\* the status the claim gives a decision
DecidedStatus(decision) ==
  IF decision = "accept" THEN STATUS.ACCEPTED
  ELSE IF decision = "reject" THEN STATUS.REJECTED
  ELSE IF decision = "modify" THEN STATUS.MODIFIED
  ELSE STATUS.DEFERRED

\* C39 (as claimed): after every review round each comment of the session
\* has a status among pending, accepted, rejected, modified and deferred;
\* a single decision accept / reject / modify / defer on an existing
\* comment leaves it accepted / rejected / modified / deferred.
CommentStatusClosed ==
  /\ [](lastOp.op = "review-code" =>
          \A i \in 1..Len(Get(lastOp.res, "allComments").v) :
            Get(Get(lastOp.res, "allComments").v[i], "status").v \in
              {STATUS[s] : s \in DOMAIN STATUS})
  /\ [][(lastOp'.op = "review-code" /\ Len(lastOp'.id) = 1) =>
          \A i \in 1..Len(Get(lastOp.res, "allComments").v) :
            Get(Get(lastOp.res, "allComments").v[i], "id") = Get(lastOp'.id[1], "commentId") =>
              Get(Get(lastOp'.res, "allComments").v[i], "status").v =
                DecidedStatus(Get(lastOp'.id[1], "decision").v)]_vars

====
